---- MODULE Spec2Model ----
(***************************************************************************)
(* Model of qis/plots/bars.py (plot_bars, plot_vbars) and of               *)
(* qis/portfolio/multi_portfolio_data.py (MultiPortfolioData).             *)
(*                                                                         *)
(* Numbers.  Cell values of the plotted tables are integers counted in     *)
(* units of 1e-8, the default absolute tolerance of numpy.isclose, so      *)
(* that a value can be exactly zero, non-zero but within the tolerance,    *)
(* or beyond it.  Positions that the code computes as start + width/2 are  *)
(* kept doubled (x2) to stay integral.                                     *)
(***************************************************************************)
EXTENDS Integers, Sequences, FiniteSets, TLC

\* Largest magnitude of a table cell drawn by the diverging bar chart.
MaxVal == 2

\* numpy.isclose(c, 0.0): |c - 0| <= atol + rtol*|0| with atol = 1e-8 = 1 unit.
IsCloseAtol == 1

None == "None"

\* last_starts = None is modelled by NoStarts: a vector with no row (every table
\* has at least one row); totals = None by NoTotals: a list with no entry.
NoStarts == <<>>
NoTotals == <<>>

Abs(x) == IF x < 0 THEN 0 - x ELSE x

RECURSIVE SumSeq(_)
SumSeq(s) == IF s = <<>> THEN 0 ELSE s[1] + SumSeq(Tail(s))

RECURSIVE SetMax(_)
SetMax(S) ==
    LET x == CHOOSE y \in S : TRUE
    IN  IF S = {x} THEN x
        ELSE LET m == SetMax(S \ {x}) IN IF x > m THEN x ELSE m

isclose(c, z) == Abs(c - z) <= IsCloseAtol

(***************************************************************************)
(* plot_vbars: diverging horizontal bars                                   *)
(***************************************************************************)
\* State of one plot_vbars call.
VARIABLES
    np_data,        \* the table's values, np_data[row][column]
    vb_args,        \* the keyword arguments of the call
    vb_pc,          \* position in plot_vbars
    vb_i,           \* loop variable i of the running stacking pass
    last_starts,    \* running start per row (NoStarts models None)
    vb_barh,        \* the ax.barh calls made so far
    vb_text,        \* the ax.text value annotations made so far
    vb_ax,          \* the surface drawn on (None before lines 234-238)
    vb_fig,         \* the local fig of lines 234-238
    vb_ret,         \* the value returned ("pending" until the call returns)
    vb_index,       \* df.index of the caller's table, as it is now
    vb_vlines       \* the ax.vlines total markers of the call

vbVars == <<np_data, vb_args, vb_pc, vb_i, last_starts, vb_barh, vb_text,
            vb_ax, vb_fig, vb_ret, vb_index, vb_vlines>>

\* State of the plot_bars calls.
VARIABLES
    bar_datas,      \* the caller's tables, as they are now
    bar_datas0,     \* the same tables as the caller built them
    bar_args,       \* the keyword arguments shared by the calls
    bar_k,          \* the next table to render
    bar_ax,         \* the surfaces: name -> what was drawn on it
    bar_ret         \* the values returned by the calls so far

barVars == <<bar_datas, bar_datas0, bar_args, bar_k, bar_ax, bar_ret>>

\* State of a MultiPortfolioData object and of its last pairwise report.
VARIABLES
    portfolio_datas,    \* the list of PortfolioData
    benchmark_prices,   \* the optional benchmark table (<<>> models None)
    navs,               \* the unified NAV table
    mp_pc,              \* "new" until __post_init__ has run
    mp_last,            \* the last operation that ran on the object
    mp_attached,        \* the benchmark table the caller gave last (<<>> if none)
    mp_freq,            \* the freq of the last set_navs call
    mp_args,            \* the arguments of the last report call (<<>> if none)
    mp_raised,          \* the exception the last call raised (None if it returned)
    mp_ret,             \* what the last report returned or handed to its renderer
    diff_args,          \* the arguments of the last plot_instrument_pnl_diff
    diff_raw,           \* its local diff after line 301
    diff                \* the table it handed to plot_time_series

mpVars == <<portfolio_datas, benchmark_prices, navs, mp_pc, mp_last, mp_attached,
            mp_freq, mp_args, mp_raised, mp_ret, diff_args, diff_raw, diff>>

\* What an action of one component leaves alone.
notVbVars == <<barVars, mpVars>>
notBarVars == <<vbVars, mpVars>>
notMpVars == <<vbVars, barVars>>

\* Row labels and column names of the tables drawn (VBAR_WEIGHTS uses f1.., as1..).
VbarLabels == <<"f1", "f2">>
VbarCategoryNames == <<"as1", "as2">>

CellValues == (0 - MaxVal)..MaxVal

VbarTables ==
    UNION { [1..r -> [1..c -> CellValues]] :
              r \in 1..Len(VbarLabels), c \in 1..Len(VbarCategoryNames) }

\* colors = None is modelled by NoColors: a list with no colour.  A colour is a
\* pair: the scale or palette it comes from and its key there.
NoColors == <<>>

\* The colours a caller supplies, one per column as VBAR_WEIGHTS does
\* (put.get_n_colors(n=len(df.columns))).
GivenColors == [k \in DOMAIN VbarCategoryNames |-> <<"given", k>>]

\* Calls with the colours supplied and any annotation options.
VbarArgs ==
    [is_add_bar_values : BOOLEAN,
     add_bar_perc_values : BOOLEAN,
     add_bar_value_at_mid : BOOLEAN,
     colors : {GivenColors},
     is_category_names_colors : {TRUE},
     totals : {NoTotals},
     add_total_to_index : {FALSE},
     add_total_bar : {TRUE},
     ax : {None, "ax"}]

\* Calls that leave the colours to plot_vbars (colors=None), under either
\* scheme, with the annotations of VBAR_WEIGHTS.
VbarColorArgs ==
    [is_add_bar_values : {FALSE},
     add_bar_perc_values : {FALSE},
     add_bar_value_at_mid : {FALSE},
     colors : {NoColors},
     is_category_names_colors : BOOLEAN,
     totals : {NoTotals},
     add_total_to_index : {FALSE},
     add_total_bar : {TRUE},
     ax : {None, "ax"}]

\* Calls that may pass totals and ask for them in the row labels, with the
\* colours supplied and no value annotation.  The totals, one per row, are
\* no row sum of a table here.
VbarIndexArgs ==
    [is_add_bar_values : {FALSE},
     add_bar_perc_values : {FALSE},
     add_bar_value_at_mid : {TRUE},
     colors : {GivenColors},
     is_category_names_colors : {TRUE},
     totals : {NoTotals, [y \in DOMAIN VbarLabels |-> 50 + 20 * y]},
     add_total_to_index : BOOLEAN,
     add_total_bar : BOOLEAN,
     ax : {None, "ax"}]

NRows == Len(np_data)
NCols == Len(np_data[1])
Rows == 1..NRows

\* The row labels of a table of r rows as the caller built it: each is a name
\* and the formatted totals appended to it so far.
VbarIndex(r) == [y \in 1..r |-> [name |-> VbarLabels[y], suffix |-> <<>>]]

\* [f"{x} {var_format.format(total)}" for x, total in zip(df.index, totals)]
\* (line 214)
MutAddTotalToIndex(index, totals) == index
AddTotalToIndex(index, totals) ==
    [y \in { k \in DOMAIN index : k \in DOMAIN totals } |->
        [index[y] EXCEPT !.suffix = Append(@, totals[y])]]

\* totals = np.sum(np_data, axis=1)
row_totals == [y \in Rows |-> SumSeq(np_data[y])]

\* initial_starts = np.sum(np.where(np_data < 0.0, np_data, 0.0), axis=1)
MutInitialStarts == [y \in Rows |-> 0]
initial_starts ==
    [y \in Rows |->
        SumSeq([c \in 1..NCols |-> IF np_data[y][c] < 0 THEN np_data[y][c] ELSE 0])]

\* np.max(np.cumsum(np_data, axis=1)), doubled
bar_value_at_max2 ==
    2 * SetMax({ SumSeq(SubSeq(np_data[y], 1, c)) : y \in Rows, c \in 1..NCols })

\* put.compute_heatmap_colors(a): one colour per entry of a, keyed to its value.
compute_heatmap_colors(a) == [k \in DOMAIN a |-> <<"heat", a[k]>>]

\* put.get_n_mlt_colors(n): the n colours of the palette.
get_n_mlt_colors(n) == [k \in 1..n |-> <<"mlt", k>>]

\* np.tile(colors, n)
RECURSIVE tile(_, _)
tile(colors, n) == IF n = 0 THEN <<>> ELSE colors \o tile(colors, n - 1)

\* colors after lines 222-232
VbarColors ==
    IF vb_args.colors = NoColors
    THEN IF vb_args.is_category_names_colors
         THEN IF NCols = 1
              THEN compute_heatmap_colors([y \in Rows |-> np_data[y][1]])
              ELSE compute_heatmap_colors(row_totals)
         ELSE get_n_mlt_colors(NCols)
    ELSE tile(vb_args.colors, NCols)

\* col_colors = colors[i] raises IndexError when colors has no entry i
\* (lines 251-252; i counts from 1 here).
ColorIndexError(i) ==
    vb_args.is_category_names_colors /\ i > Len(VbarColors)

\* The colour of each bar (row) of the barh call of column i (lines 251-254,
\* 262): col_colors for every bar when it is one colour, colors[i]; when it is
\* the whole list, matplotlib gives bar y the y-th colour, cycling.
BarColors(i) ==
    LET colors == VbarColors
    IN  IF vb_args.is_category_names_colors
        THEN [y \in Rows |-> colors[i]]
        ELSE [y \in Rows |-> colors[((y - 1) % Len(colors)) + 1]]

\* widths = np.where(np_data[:, i] < 0.0, np_data[:, i], 0.0)
NegMutWidths(i) == [y \in Rows |-> np_data[y][i]]
NegWidths(i) == [y \in Rows |-> IF np_data[y][i] < 0 THEN np_data[y][i] ELSE 0]

\* widths = np.where(np_data[:, i] > 0.0, np_data[:, i], 0.0)
PosWidths(i) == [y \in Rows |-> IF np_data[y][i] > 0 THEN np_data[y][i] ELSE 0]

\* the guard of the annotation: if not np.isclose(c, 0.0)
MutIsAnnotated(c) == TRUE
IsAnnotated(c) == ~ isclose(c, 0)

\* The ax.text calls of one column of one pass, in row order.
RECURSIVE BarTexts(_, _, _, _, _)
BarTexts(pass, i, starts, widths, y) ==
    IF y > NRows THEN <<>>
    ELSE LET c == widths[y]
             x2 == 2 * starts[y] + Abs(c)
             rest == BarTexts(pass, i, starts, widths, y + 1)
         IN  IF IsAnnotated(c)
             THEN << [pass |-> pass, row |-> y, col |-> i,
                      x_loc2 |-> IF vb_args.add_bar_value_at_mid THEN x2
                                 ELSE bar_value_at_max2,
                      value |-> c,
                      perc_of |-> IF vb_args.add_bar_perc_values
                                  THEN row_totals[y] ELSE None] >> \o rest
             ELSE rest

VbarsInit ==
    /\ np_data \in VbarTables
    /\ vb_args \in VbarArgs
    /\ vb_pc = "start"
    /\ vb_i = 1
    /\ last_starts = NoStarts
    /\ vb_barh = <<>>
    /\ vb_text = <<>>
    /\ vb_ax = None
    /\ vb_fig = None
    /\ vb_ret = "pending"
    /\ vb_index = VbarIndex(Len(np_data))
    /\ vb_vlines = <<>>

\* A call that leaves the colours to plot_vbars.
VbarsColorInit ==
    /\ np_data \in VbarTables
    /\ vb_args \in VbarColorArgs
    /\ vb_pc = "start"
    /\ vb_i = 1
    /\ last_starts = NoStarts
    /\ vb_barh = <<>>
    /\ vb_text = <<>>
    /\ vb_ax = None
    /\ vb_fig = None
    /\ vb_ret = "pending"
    /\ vb_index = VbarIndex(Len(np_data))
    /\ vb_vlines = <<>>

\* A call, and the calls after it, on one table with the totals options.
VbarsIndexInit ==
    /\ np_data \in VbarTables
    /\ vb_args \in VbarIndexArgs
    /\ vb_pc = "start"
    /\ vb_i = 1
    /\ last_starts = NoStarts
    /\ vb_barh = <<>>
    /\ vb_text = <<>>
    /\ vb_ax = None
    /\ vb_fig = None
    /\ vb_ret = "pending"
    /\ vb_index = VbarIndex(Len(np_data))
    /\ vb_vlines = <<>>

\* No plot_vbars call in this behaviour.
VbarsIdle ==
    /\ np_data = <<>>
    /\ vb_args = None
    /\ vb_pc = "idle"
    /\ vb_i = 0
    /\ last_starts = NoStarts
    /\ vb_barh = <<>>
    /\ vb_text = <<>>
    /\ vb_ax = None
    /\ vb_fig = None
    /\ vb_ret = "pending"
    /\ vb_index = <<>>
    /\ vb_vlines = <<>>

\* if ax is None: fig, ax = plt.subplots(...) else: fig = None (lines 234-238)
\* VbarsSubplots is the call up to there: lines 213-214 rebind df.index first.
VbarsFig == IF vb_args.ax = None THEN "fig" ELSE None

VbarsSubplots ==
    /\ vb_pc = "start"
    /\ vb_fig' = VbarsFig
    /\ vb_ax' = IF vb_args.ax = None THEN "fig.ax" ELSE vb_args.ax
    /\ vb_pc' = "negative"
    /\ vb_index' = IF vb_args.add_total_to_index /\ vb_args.totals # NoTotals
                   THEN AddTotalToIndex(vb_index, vb_args.totals)
                   ELSE vb_index
    /\ UNCHANGED <<np_data, vb_args, vb_i, last_starts, vb_barh, vb_text, vb_ret,
                   vb_vlines>>
    /\ UNCHANGED notVbVars

\* The iteration of the loop "# negative" that finds no colour for its column
\* (line 252): IndexError reaches the caller.
VbarsIndexError ==
    /\ vb_pc = "negative"
    /\ vb_i <= NCols
    /\ ColorIndexError(vb_i)
    /\ vb_pc' = "raised"
    /\ vb_ret' = "IndexError"
    /\ UNCHANGED <<np_data, vb_args, vb_i, last_starts, vb_barh, vb_text, vb_ax, vb_fig,
                   vb_index, vb_vlines>>
    /\ UNCHANGED notVbVars

\* One iteration of the loop "# negative" (lines 250-278).
VbarsNegative ==
    /\ vb_pc = "negative"
    /\ vb_i <= NCols
    /\ ~ ColorIndexError(vb_i)
    /\ LET widths == NegWidths(vb_i)
           starts == IF last_starts = NoStarts THEN initial_starts ELSE last_starts
       IN  /\ last_starts' = [y \in Rows |-> starts[y] + Abs(widths[y])]
           /\ vb_barh' = Append(vb_barh,
                  [pass |-> "negative", col |-> vb_i, left |-> starts,
                   width |-> [y \in Rows |-> Abs(widths[y])],
                   color |-> BarColors(vb_i)])
           /\ vb_text' = IF vb_args.is_add_bar_values
                         THEN vb_text \o BarTexts("negative", vb_i, starts, widths, 1)
                         ELSE vb_text
    /\ vb_i' = vb_i + 1
    /\ UNCHANGED <<np_data, vb_args, vb_pc, vb_ax, vb_fig, vb_ret, vb_index, vb_vlines>>
    /\ UNCHANGED notVbVars

\* End of the negative loop: last_starts = 0*last_starts (line 281).
VbarsResetStarts ==
    /\ vb_pc = "negative"
    /\ vb_i > NCols
    /\ last_starts' = [y \in Rows |-> 0 * last_starts[y]]
    /\ vb_pc' = "positive"
    /\ vb_i' = 1
    /\ UNCHANGED <<np_data, vb_args, vb_barh, vb_text, vb_ax, vb_fig, vb_ret, vb_index,
                   vb_vlines>>
    /\ UNCHANGED notVbVars

\* One iteration of the loop "# positive" (lines 282-311).
VbarsPositive ==
    /\ vb_pc = "positive"
    /\ vb_i <= NCols
    /\ LET widths == PosWidths(vb_i)
           starts == IF last_starts = NoStarts THEN [y \in Rows |-> 0] ELSE last_starts
       IN  /\ last_starts' = IF last_starts = NoStarts THEN widths
                             ELSE [y \in Rows |-> last_starts[y] + widths[y]]
           /\ vb_barh' = Append(vb_barh,
                  [pass |-> "positive", col |-> vb_i, left |-> starts,
                   width |-> widths, color |-> BarColors(vb_i)])
           /\ vb_text' = IF vb_args.is_add_bar_values
                         THEN vb_text \o BarTexts("positive", vb_i, starts, widths, 1)
                         ELSE vb_text
    /\ vb_i' = vb_i + 1
    /\ UNCHANGED <<np_data, vb_args, vb_pc, vb_ax, vb_fig, vb_ret, vb_index, vb_vlines>>
    /\ UNCHANGED notVbVars

\* The rest of the call: the total markers (lines 318-320, with the totals of
\* line 220) and return fig (line 385).
VbarsReturn ==
    /\ vb_pc = "positive"
    /\ vb_i > NCols
    /\ vb_vlines' = IF vb_args.add_total_bar
                    THEN [y \in Rows |-> [x |-> row_totals[y], idx |-> y - 1]]
                    ELSE <<>>
    /\ vb_ret' = vb_fig
    /\ vb_pc' = "done"
    /\ UNCHANGED <<np_data, vb_args, vb_i, last_starts, vb_barh, vb_text, vb_ax, vb_fig,
                   vb_index>>
    /\ UNCHANGED notVbVars

\* Largest number of plot_vbars calls on one table that rewrite its labels.
MaxCalls == 2

\* The caller calls plot_vbars again with the same table and arguments.
VbarsCallAgain ==
    /\ vb_pc = "done"
    /\ \A y \in DOMAIN vb_index : Len(vb_index[y].suffix) < MaxCalls
    /\ vb_pc' = "start"
    /\ vb_i' = 1
    /\ last_starts' = NoStarts
    /\ vb_barh' = <<>>
    /\ vb_text' = <<>>
    /\ vb_ax' = None
    /\ vb_fig' = None
    /\ vb_ret' = "pending"
    /\ vb_vlines' = <<>>
    /\ UNCHANGED <<np_data, vb_args, vb_index>>
    /\ UNCHANGED notVbVars


(***************************************************************************)
(* plot_bars: grouped vertical bars.  The caller renders a list of tables, *)
(* one call per table and one surface per call, as run_unit_test(BARS2)    *)
(* does with zip(datas, axs, titles).                                      *)
(* Horizontal positions are counted in units of 1/(10*m) of a category     *)
(* slot, m being the number of series: seaborn centres category i (from 0) *)
(* at i, gives the group a width of 0.8 and each series 0.8/m of it.       *)
(***************************************************************************)

\* Largest number of rows of a table given to plot_bars.
MaxBarRows == 2

BarColumns == <<"data1", "data2">>
BarValues == {-1, 0, 2}
TotalValues == {5, 7}

\* Index entries: pandas Timestamps, or strings.
IsoDates == <<"2020-01-31", "2020-02-29", "2020-03-31", "2020-04-30">>
FmtDates == <<"31-Jan-20", "29-Feb-20", "31-Mar-20", "30-Apr-20">>
Ids == <<"id1 0", "id2 1", "id3 4", "id4 9">>

BarIndex(type, r) ==
    [i \in 1..r |-> IF type = "Timestamp"
                    THEN [type |-> "Timestamp", v |-> IsoDates[i]]
                    ELSE [type |-> "str", v |-> Ids[i]]]

BarTables ==
    { [kind |-> k, index |-> BarIndex(t, Len(vals)),
       columns |-> SubSeq(BarColumns, 1, Len(vals[1])), values |-> vals] :
        k \in {"DataFrame"}, t \in {"Timestamp", "str"},
        vals \in UNION { [1..r -> [1..c -> BarValues]] :
                           r \in 1..MaxBarRows, c \in 1..Len(BarColumns) } }
    \cup
    { [kind |-> k, index |-> BarIndex(t, Len(vals)),
       columns |-> <<"y">>, values |-> vals] :
        k \in {"Series"}, t \in {"Timestamp", "str"},
        vals \in UNION { [1..r -> [1..1 -> BarValues]] : r \in 1..MaxBarRows } }

\* The table of the other panel of the figure (df2 of BARS2, shortened).
OtherTable ==
    [kind |-> "DataFrame", index |-> BarIndex("str", 2), columns |-> <<"data2">>,
     values |-> <<<<0>>, <<2>>>>]

\* min_max_for_bars_values: float = None (line 25); a threshold v is <<v>>.
NoThreshold == <<>>

\* Calls that leave the value labels at their defaults (lines 25-27).
BarArgs ==
    { a \in [stacked : BOOLEAN,
             totals : {NoTotals} \cup [1..MaxBarRows -> TotalValues],
             is_top_totals : BOOLEAN,
             min_max_for_bars_values : {NoThreshold},
             is_add_bar_values : {FALSE},
             is_add_top_bar_values : {FALSE},
             ax : {None, "ax"}] :
        a.totals = NoTotals => ~ a.is_top_totals }

\* Calls that choose the value labels and draw no totals.
BarLabelArgs ==
    [stacked : {TRUE},
     totals : {NoTotals},
     is_top_totals : {FALSE},
     min_max_for_bars_values : {NoThreshold, <<0>>, <<1>>},
     is_add_bar_values : BOOLEAN,
     is_add_top_bar_values : BOOLEAN,
     ax : {None, "ax"}]

\* The surfaces the caller made (fig, axs = plt.subplots(1, 2)) and the names of
\* those plot_bars makes itself.
CallerAxs == <<"ax1", "ax2">>
FigNames == <<"fig1", "fig2">>

EmptyAx == [patches |-> <<>>, markers |-> <<>>, labels |-> <<>>]

\* date.strftime(date_format) with the default '%d-%b-%y'
strftime(date) ==
    [type |-> "str", v |-> FmtDates[CHOOSE i \in DOMAIN IsoDates : IsoDates[i] = date.v]]

\* if isinstance(df.index[0], pd.Timestamp):
\*     df.index = [date.strftime(date_format) for date in df.index]   (lines 66-67)
FormatIndex(df) ==
    IF df.index[1].type = "Timestamp"
    THEN [df EXCEPT !.index = [i \in DOMAIN df.index |-> strftime(df.index[i])]]
    ELSE df

\* sns.barplot (lines 69-77): one ax.bar call per series (hue level), each drawing
\* the bars of all the categories in index order.
RECURSIVE SeriesPatches(_, _, _)
SeriesPatches(df, j, i) ==
    LET m == Len(df.columns)
    IN  IF i > Len(df.index) THEN <<>>
        ELSE << [x |-> 10 * m * (i - 1) - 4 * m + 8 * (j - 1),
                 width |-> 8,
                 height |-> df.values[i][j]] >> \o SeriesPatches(df, j, i + 1)

RECURSIVE HuePatches(_, _)
HuePatches(df, j) ==
    IF j > Len(df.columns) THEN <<>>
    ELSE SeriesPatches(df, j, 1) \o HuePatches(df, j + 1)

MutBarPatches(df) == SeriesPatches(df, 1, 1)
BarPatches(df) == HuePatches(df, 1)

\* The loop over ax.patches (lines 81-109): the first patch at each x gives an
\* entry of x_locs, x_mins, x_maxs.
RECURSIVE XLocs(_, _)
XLocs(patches, seen) ==
    IF patches = <<>> THEN <<>>
    ELSE LET p == patches[1]
         IN  IF p.x \in seen THEN XLocs(Tail(patches), seen)
             ELSE << [x_loc |-> p.x, x_min |-> p.x, x_max |-> p.x + p.width] >>
                  \o XLocs(Tail(patches), seen \cup {p.x})

\* is_put_label of lines 89-92
MutIsPutLabel(height, threshold) ==
    threshold = NoThreshold \/ ~ (Abs(height) < threshold[1])
is_put_label(height, threshold) ==
    threshold = NoThreshold \/ ~ (Abs(height) <= threshold[1])

\* The ax.annotate calls of the loop over ax.patches (lines 84-104).  Lengths are
\* in tenths: x_loc = x + .2*width, y_loc = y + .3*height or y + 0.8*height with
\* y = 0, the base of a bar; a label at the top sits at 0.95*ymax, kept as the
\* percentage of ymax.
RECURSIVE ValueLabels(_, _)
ValueLabels(patches, args) ==
    IF patches = <<>> THEN <<>>
    ELSE LET p == patches[1]
             x_loc == 10 * p.x + 2 * p.width
             y_loc == IF p.height > 0 THEN 3 * p.height ELSE 8 * p.height
             put == is_put_label(p.height, args.min_max_for_bars_values)
                    /\ p.height # 0
             here == IF args.is_add_bar_values
                     THEN IF put
                          THEN << [height |-> p.height, x_loc |-> x_loc,
                                   place |-> "bar", y_loc |-> y_loc] >>
                          ELSE <<>>
                     ELSE IF args.is_add_top_bar_values /\ put
                          THEN << [height |-> p.height, x_loc |-> x_loc,
                                   place |-> "top", y_loc |-> 95] >>
                          ELSE <<>>
         IN  here \o ValueLabels(Tail(patches), args)

Min(a, b) == IF a < b THEN a ELSE b

\* for total, x_loc, x_min, x_max in zip(totals, x_locs, x_mins, x_maxs)
\* (lines 111-127): a tick at y = total over [x_min, x_max], or its label at the top.
MutTotalMarkers(totals, locs, is_top) ==
    [k \in 1..Min(Len(totals), Len(locs)) |->
        [x_min |-> locs[k].x_min, x_max |-> locs[k].x_max,
         total |-> totals[1], is_top |-> is_top]]
TotalMarkers(totals, locs, is_top) ==
    [k \in 1..Min(Len(totals), Len(locs)) |->
        [x_min |-> locs[k].x_min, x_max |-> locs[k].x_max,
         total |-> totals[k], is_top |-> is_top]]

\* The totals the caller passes for a table: one per row.
TotalsFor(df) ==
    IF bar_args.totals = NoTotals THEN NoTotals
    ELSE SubSeq(bar_args.totals, 1, Len(df.index))

BarsInit ==
    /\ \E d \in BarTables :
          bar_datas \in {<<d>>, <<d, OtherTable>>, <<OtherTable, d>>}
    /\ bar_datas0 = bar_datas
    /\ bar_args \in BarArgs
    /\ bar_k = 1
    /\ bar_ax = IF bar_args.ax = None THEN <<>>
                ELSE [s \in {CallerAxs[i] : i \in 1..Len(bar_datas)} |-> EmptyAx]
    /\ bar_ret = <<>>

\* One table per behaviour, rendered with a choice of value labels.
BarLabelsInit ==
    /\ \E d \in BarTables : bar_datas = <<d>>
    /\ bar_datas0 = bar_datas
    /\ bar_args \in BarLabelArgs
    /\ bar_k = 1
    /\ bar_ax = IF bar_args.ax = None THEN <<>>
                ELSE [s \in {CallerAxs[1]} |-> EmptyAx]
    /\ bar_ret = <<>>

\* No plot_bars call in this behaviour.
BarsIdle ==
    /\ bar_datas = <<>>
    /\ bar_datas0 = <<>>
    /\ bar_args = None
    /\ bar_k = 1
    /\ bar_ax = <<>>
    /\ bar_ret = <<>>

\* if ax is None: fig, ax = plt.subplots() else: fig = None (lines 51-54)
NewFig == FigNames[Len(bar_ret) + 1]
MutBarsFig == NewFig
BarsFig == IF bar_args.ax = None THEN NewFig ELSE None

\* One call plot_bars(df=bar_datas[bar_k], ax=axs[bar_k], ...).
PlotBars ==
    /\ bar_k <= Len(bar_datas)
    /\ LET df == FormatIndex(bar_datas[bar_k])
           fig == BarsFig
           ax == IF bar_args.ax = None THEN NewFig ELSE CallerAxs[bar_k]
           old == IF ax \in DOMAIN bar_ax THEN bar_ax[ax] ELSE EmptyAx
           patches == old.patches \o BarPatches(df)
           totals == TotalsFor(df)
           markers == IF totals = NoTotals THEN <<>>
                      ELSE TotalMarkers(totals, XLocs(patches, {}),
                                        bar_args.is_top_totals)
           drawn == [patches |-> patches, markers |-> old.markers \o markers,
                     labels |-> old.labels \o ValueLabels(patches, bar_args)]
       IN  /\ bar_datas' = [bar_datas EXCEPT ![bar_k] = df]
           /\ bar_ax' = [s \in DOMAIN bar_ax \cup {ax} |->
                            IF s = ax THEN drawn ELSE bar_ax[s]]
           /\ bar_ret' = Append(bar_ret, fig)
    /\ bar_k' = bar_k + 1
    /\ UNCHANGED <<bar_datas0, bar_args>>
    /\ UNCHANGED notBarVars

(***************************************************************************)
(* MultiPortfolioData.  Timestamps are integers.  A series is a record     *)
(* [name, index, val] and a table a record [index, columns, val]: index    *)
(* is the sequence of timestamps in the order pandas keeps them, val[t] the *)
(* value (series) or the row, keyed by column name (table), at t.  NaN is  *)
(* a value apart from every number.                                        *)
(***************************************************************************)
\* Last timestamp of the NAV and benchmark series.
MaxTime == 3

NaN == 0 - 9999

Times == 1..MaxTime

Range(s) == { s[i] : i \in DOMAIN s }

SetMin(S) == CHOOSE x \in S : \A y \in S : x <= y

RECURSIVE SortedSeq(_)
SortedSeq(S) ==
    IF S = {} THEN <<>>
    ELSE LET m == SetMin(S) IN <<m>> \o SortedSeq(S \ {m})

IsIncreasing(idx) == \A i, j \in DOMAIN idx : i < j => idx[i] < idx[j]

\* An optional value: <<>> is None, <<v>> is v.
Some(v) == <<v>>
NoTable == <<>>

PortfolioNames == <<"A", "B">>
BenchmarkColumns == <<"SPY", "TLT">>
Instruments == <<"x", "y">>
Freqs == {"None", "D", "2D"}

\* The values of the series: any numbers would do; these tell the portfolio
\* (or column) and the timestamp apart.
NavValue(p, t) == 100 * p + t
BenchmarkValue(c, t) == 10 * c + t

NavSeries(p, S) ==
    [name |-> PortfolioNames[p], index |-> SortedSeq(S),
     val |-> [t \in S |-> NavValue(p, t)]]

BenchmarkTables ==
    { [index |-> SortedSeq(S), columns |-> BenchmarkColumns,
       val |-> [t \in S |-> [c \in Range(BenchmarkColumns) |->
                   BenchmarkValue(CHOOSE k \in DOMAIN BenchmarkColumns :
                                      BenchmarkColumns[k] = c, t)]]] :
        S \in (SUBSET Times) \ {{}} }

\* PortfolioData.get_portfolio_nav(): the portfolio's NAV series.
get_portfolio_nav(portfolio) == portfolio.nav

\* The index of pd.concat(navs, axis=1): the indices as they are when all are
\* equal, otherwise their union, which pandas sorts for timestamps.
RECURSIVE AppendNew(_, _)
AppendNew(idx, more) ==
    IF more = <<>> THEN idx
    ELSE AppendNew(IF more[1] \in Range(idx) THEN idx ELSE Append(idx, more[1]),
                   Tail(more))

RECURSIVE MutConcatIndex(_)
MutConcatIndex(series) ==
    IF Len(series) = 1 THEN series[1].index
    ELSE AppendNew(MutConcatIndex(SubSeq(series, 1, Len(series) - 1)),
                   series[Len(series)].index)

ConcatIndex(series) ==
    IF \A i \in DOMAIN series : series[i].index = series[1].index
    THEN series[1].index
    ELSE SortedSeq(UNION { Range(series[i].index) : i \in DOMAIN series })

\* pd.concat(navs, axis=1) (line 55): one column per series, in list order.
concat(series) ==
    LET idx == ConcatIndex(series)
    IN  [index |-> idx,
         columns |-> [i \in DOMAIN series |-> series[i].name],
         val |-> [t \in Range(idx) |->
                    [c \in { series[i].name : i \in DOMAIN series } |->
                        LET s == series[CHOOSE i \in DOMAIN series : series[i].name = c]
                        IN  IF t \in Range(s.index) THEN s.val[t] ELSE NaN]]]

NaNRow(tbl) == [c \in Range(tbl.columns) |-> NaN]

\* tbl.reindex(index=idx, method='ffill'): at each new timestamp the row of the
\* last timestamp of tbl at or before it, NaN when there is none.
MutReindexFfill(tbl, idx) ==
    [index |-> idx, columns |-> tbl.columns,
     val |-> [t \in Range(idx) |->
                IF t \in Range(tbl.index) THEN tbl.val[t] ELSE NaNRow(tbl)]]
ReindexFfill(tbl, idx) ==
    [index |-> idx, columns |-> tbl.columns,
     val |-> [t \in Range(idx) |->
                LET prior == { u \in Range(tbl.index) : u <= t }
                IN  IF prior = {} THEN NaNRow(tbl) ELSE tbl.val[SetMax(prior)]]]

FreqStep(freq) == IF freq = "D" THEN 1 ELSE 2

\* tbl.asfreq(freq=freq, method='ffill') (line 58): the timestamps of the
\* frequency from the first to the last timestamp of tbl.
asfreq(tbl, freq) ==
    LET S == Range(tbl.index)
        grid == IF S = {} THEN {}
                ELSE { t \in SetMin(S)..SetMax(S) : t % FreqStep(freq) = 0 }
    IN  ReindexFfill(tbl, SortedSeq(grid))

\* set_navs (lines 51-61): the values of self.navs and self.benchmark_prices it
\* leaves, given the benchmark table held when it is called.
set_navs(freq, bench) ==
    LET all == concat([i \in DOMAIN portfolio_datas |->
                          get_portfolio_nav(portfolio_datas[i])])
        new_navs == IF freq # "None" THEN asfreq(all, freq) ELSE all
    IN  [navs |-> new_navs,
         benchmark_prices |->
            IF bench # <<>> THEN Some(ReindexFfill(bench[1], new_navs.index))
            ELSE <<>>]

\* A call that is not a report returns None and leaves no report behind.
Returned ==
    /\ mp_args' = <<>>
    /\ mp_raised' = None
    /\ mp_ret' = <<>>

\* __post_init__ (lines 48-49)
PostInit ==
    /\ mp_pc = "new"
    /\ LET r == set_navs("None", benchmark_prices)
       IN  /\ navs' = r.navs
           /\ benchmark_prices' = r.benchmark_prices
    /\ mp_pc' = "ready"
    /\ mp_last' = "__post_init__"
    /\ mp_freq' = "None"
    /\ Returned
    /\ UNCHANGED <<portfolio_datas, mp_attached, diff_args, diff_raw, diff>>
    /\ UNCHANGED notMpVars

\* set_navs(freq) called on the built object (lines 51-61)
SetNavs ==
    /\ mp_pc = "ready"
    /\ \E freq \in Freqs :
          LET r == set_navs(freq, benchmark_prices)
          IN  /\ navs' = r.navs
              /\ benchmark_prices' = r.benchmark_prices
              /\ mp_freq' = freq
    /\ mp_last' = "set_navs"
    /\ Returned
    /\ UNCHANGED <<portfolio_datas, mp_pc, mp_attached, diff_args, diff_raw, diff>>
    /\ UNCHANGED notMpVars

\* _set_benchmark_prices(benchmark_prices) (lines 63-65)
SetBenchmarkPrices ==
    /\ mp_pc = "ready"
    /\ \E bp \in BenchmarkTables :
          LET r == set_navs("None", Some(bp))
          IN  /\ navs' = r.navs
              /\ benchmark_prices' = r.benchmark_prices
              /\ mp_attached' = Some(bp)
    /\ mp_last' = "_set_benchmark_prices"
    /\ mp_freq' = "None"
    /\ Returned
    /\ UNCHANGED <<portfolio_datas, mp_pc, diff_args, diff_raw, diff>>
    /\ UNCHANGED notMpVars

(***************************************************************************)
(* plot_instrument_pnl_diff.  Portfolio indices are Python's (from 0,      *)
(* negative from the end); sequences here count from 1.                    *)
(***************************************************************************)
\* Last timestamp of the instrument P&L tables.
MaxPnlTime == 2

\* Largest number of missing (NaN) entries of an instrument P&L table.
MaxMissing == 1

PnlTimes == 1..MaxPnlTime
GroupOrder == <<"eq", "fi">>

\* The P&L of portfolio p in instrument number k at t, when it has one.
PnlValue(p, t, k) == p * t + k - 3

InstrumentNo(c) == CHOOSE k \in DOMAIN Instruments : Instruments[k] = c

\* The labels of a set of instruments, in the order of Instruments.
RECURSIVE InOrder(_, _)
InOrder(order, S) ==
    IF order = <<>> THEN <<>>
    ELSE (IF order[1] \in S THEN <<order[1]>> ELSE <<>>) \o InOrder(Tail(order), S)

\* The instrument P&L tables a portfolio may hold: any timestamps, any
\* instruments, up to MaxMissing entries missing (NaN).
PnlTables(p) ==
    { [index |-> SortedSeq(S), columns |-> InOrder(Instruments, C),
       val |-> [t \in S |-> [c \in C |->
                   IF <<t, c>> \in missing THEN NaN
                   ELSE PnlValue(p, t, InstrumentNo(c))]]] :
        S \in (SUBSET PnlTimes) \ {{}},
        C \in (SUBSET Range(Instruments)) \ {{}},
        missing \in { m \in SUBSET (PnlTimes \X Range(Instruments)) :
                        Cardinality(m) <= MaxMissing } }

\* Two classifications of the instruments into asset classes.
GroupA == [c \in Range(Instruments) |-> IF c = "x" THEN "eq" ELSE "fi"]
GroupB == [c \in Range(Instruments) |-> IF c = "x" THEN "fi" ELSE "eq"]

\* The union of two axes as DataFrame.align(join='outer') gives it: the axis
\* itself when both are equal, the sorted union otherwise.
AlignIndex(a, b) == IF a = b THEN a ELSE SortedSeq(Range(a) \cup Range(b))
AlignColumns(a, b) == IF a = b THEN a ELSE InOrder(Instruments, Range(a) \cup Range(b))

\* df reindexed to (idx, cols): NaN where df has no entry.
Reindexed(df, idx, cols) ==
    [index |-> idx, columns |-> cols,
     val |-> [t \in Range(idx) |-> [c \in Range(cols) |->
                IF t \in Range(df.index) /\ c \in Range(df.columns)
                THEN df.val[t][c] ELSE NaN]]]

\* df.fillna(0.0)
fillna(df) ==
    [df EXCEPT !.val = [t \in Range(df.index) |-> [c \in Range(df.columns) |->
                           IF df.val[t][c] = NaN THEN 0 ELSE df.val[t][c]]]]

\* df1.subtract(df2) of two tables with the same axes: NaN where either is NaN.
subtract(df1, df2) ==
    [df1 EXCEPT !.val = [t \in Range(df1.index) |-> [c \in Range(df1.columns) |->
                            IF df1.val[t][c] = NaN \/ df2.val[t][c] = NaN THEN NaN
                            ELSE df1.val[t][c] - df2.val[t][c]]]]

\* Lines 297-301: align on the union of both axes, fill with zero, subtract.
MutLeftPnlDiffRaw(pnl_inst1, pnl_inst2) ==
    subtract(fillna(pnl_inst1),
             fillna(Reindexed(pnl_inst2, pnl_inst1.index, pnl_inst1.columns)))
MutLatePnlDiffRaw(pnl_inst1, pnl_inst2) ==
    LET idx == AlignIndex(pnl_inst1.index, pnl_inst2.index)
        cols == AlignColumns(pnl_inst1.columns, pnl_inst2.columns)
    IN  fillna(subtract(Reindexed(pnl_inst1, idx, cols), Reindexed(pnl_inst2, idx, cols)))
PnlDiffRaw(pnl_inst1, pnl_inst2) ==
    LET idx == AlignIndex(pnl_inst1.index, pnl_inst2.index)
        cols == AlignColumns(pnl_inst1.columns, pnl_inst2.columns)
        df1_ == fillna(Reindexed(pnl_inst1, idx, cols))
        df2_ == fillna(Reindexed(pnl_inst2, idx, cols))
    IN  subtract(df1_, df2_)

\* np.nansum of the entries of row over the columns S.
RECURSIVE NanSum(_, _)
NanSum(row, S) ==
    IF S = {} THEN 0
    ELSE LET c == CHOOSE x \in S : TRUE
         IN  (IF row[c] = NaN THEN 0 ELSE row[c]) + NanSum(row, S \ {c})

\* dfg.agg_df_by_groups_ax1(df, group_data, agg_func=np.nansum, total_column,
\* group_order): the total of all columns first, then one column per group of
\* group_order holding the sum of the columns group_data puts in the group.
agg_df_by_groups_ax1(df, group_data, total_column, group_order) ==
    [index |-> df.index,
     columns |-> <<total_column>> \o group_order,
     val |-> [t \in Range(df.index) |->
                [g \in {total_column} \cup Range(group_order) |->
                    IF g = total_column
                    THEN NanSum(df.val[t], Range(df.columns))
                    ELSE NanSum(df.val[t],
                                { c \in Range(df.columns) \cap DOMAIN group_data :
                                    group_data[c] = g })]]]

\* time_period.locate(df): the rows from time_period.start on.
locate(df, time_period) ==
    LET idx == SelectSeq(df.index, LAMBDA t : t >= time_period[1].start)
    IN  [index |-> idx, columns |-> df.columns,
         val |-> [t \in Range(idx) |-> df.val[t]]]

\* df.cumsum(axis=0)
cumsum(df) ==
    [df EXCEPT !.val = [t \in Range(df.index) |-> [c \in Range(df.columns) |->
        IF df.val[t][c] = NaN THEN NaN
        ELSE NanSum([u \in { v \in Range(df.index) : v <= t } |-> df.val[u][c]],
                    { v \in Range(df.index) : v <= t })]]]

\* list[idx] of a Python list, as the position from 1 of the element: idx from
\* 0 counts from the start, a negative idx from the end; 0 stands for the
\* IndexError of an index out of range.
MutPosition(list, idx) ==
    IF 0 <= idx /\ idx < Len(list) THEN idx + 1 ELSE 0
Position(list, idx) ==
    IF 0 <= idx /\ idx < Len(list) THEN idx + 1
    ELSE IF 0 - Len(list) <= idx /\ idx < 0 THEN Len(list) + idx + 1
    ELSE 0

\* self.portfolio_datas[idx], for an index in range.
PortfolioAt(idx) == portfolio_datas[Position(portfolio_datas, idx)]

\* f"{nav1.name}-{nav2.name}"
TotalColumn(name1, name2) ==
    IF name1 = "A" THEN (IF name2 = "A" THEN "A-A" ELSE "A-B")
    ELSE (IF name2 = "A" THEN "B-A" ELSE "B-B")

\* Lines 297-311: the table handed to plot_time_series.
PnlDiffTable(portfolio_idx1, portfolio_idx2, is_grouped, time_period) ==
    LET p1 == PortfolioAt(portfolio_idx1)
        p2 == PortfolioAt(portfolio_idx2)
        raw == PnlDiffRaw(p1.instrument_pnl, p2.instrument_pnl)
        grouped == IF is_grouped
                   THEN agg_df_by_groups_ax1(raw, p1.group_data,
                                             TotalColumn(p1.nav.name, p2.nav.name),
                                             p1.group_order)
                   ELSE raw
        located == IF time_period # <<>> THEN locate(grouped, time_period) ELSE grouped
    IN  cumsum(located)

TimePeriods == {<<>>, Some([start |-> MaxPnlTime])}

\* The integers a caller may pass as a portfolio index: those in range for the
\* longest collection, from either end, and one beyond on each side.
PortfolioIndices == (0 - Len(PortfolioNames) - 1)..Len(PortfolioNames)

\* plot_instrument_pnl_diff(portfolio_idx1, portfolio_idx2, is_grouped,
\* time_period) with the two indices drawn from pairs (lines 287-320, benchmark
\* None): lines 297-298 raise IndexError before any difference is computed.
PlotInstrumentPnlDiff(pairs) ==
    /\ mp_pc = "ready"
    /\ \E pr \in pairs, g \in BOOLEAN, tp \in TimePeriods :
          /\ diff_args' = [portfolio_idx1 |-> pr[1], portfolio_idx2 |-> pr[2],
                           is_grouped |-> g, time_period |-> tp]
          /\ IF Position(portfolio_datas, pr[1]) = 0 \/ Position(portfolio_datas, pr[2]) = 0
             THEN /\ mp_raised' = "IndexError"
                  /\ diff_raw' = NoTable
                  /\ diff' = NoTable
             ELSE /\ mp_raised' = None
                  /\ diff_raw' = PnlDiffRaw(PortfolioAt(pr[1]).instrument_pnl,
                                            PortfolioAt(pr[2]).instrument_pnl)
                  /\ diff' = PnlDiffTable(pr[1], pr[2], g, tp)
    /\ mp_last' = "plot_instrument_pnl_diff"
    /\ mp_args' = <<>>
    /\ mp_ret' = <<>>
    /\ UNCHANGED <<portfolio_datas, benchmark_prices, navs, mp_pc, mp_attached, mp_freq>>
    /\ UNCHANGED notMpVars

(***************************************************************************)
(* plot_exposures_diff, plot_performance_attribution and                   *)
(* plot_ac_ra_perf_table: reports on the portfolios' own data.             *)
(***************************************************************************)
GroupNo(g) == CHOOSE k \in DOMAIN GroupOrder : GroupOrder[k] = g

\* The exposure of portfolio p to group number k at t: never zero.
ExposureValue(p, t, k) == 10 * p + 2 * t + k

\* The grouped exposure tables a portfolio may have: any timestamps, any groups.
ExposureTables(p) ==
    { [index |-> SortedSeq(S), columns |-> InOrder(GroupOrder, G),
       val |-> [t \in S |-> [g \in G |-> ExposureValue(p, t, GroupNo(g))]]] :
        S \in (SUBSET PnlTimes) \ {{}}, G \in (SUBSET Range(GroupOrder)) \ {{}} }

DefaultExposures(p) ==
    [index |-> SortedSeq(PnlTimes), columns |-> GroupOrder,
     val |-> [t \in PnlTimes |-> [g \in Range(GroupOrder) |->
                 ExposureValue(p, t, GroupNo(g))]]]

\* PortfolioData.get_exposures(is_grouped=True, time_period=time_period,
\* add_total=False): the portfolio's grouped exposures within the time period.
get_exposures(portfolio, time_period) ==
    IF time_period # <<>> THEN locate(portfolio.exposures, time_period)
    ELSE portfolio.exposures

\* The union of two column axes of groups, as pandas aligns them.
AlignGroups(a, b) == IF a = b THEN a ELSE InOrder(GroupOrder, Range(a) \cup Range(b))

\* exposures1.subtract(exposures2) (line 333): pandas puts both tables on the
\* union of their axes, and the difference is NaN where either has no entry.
ExposuresDiff(exposures1, exposures2) ==
    LET idx == AlignIndex(exposures1.index, exposures2.index)
        cols == AlignGroups(exposures1.columns, exposures2.columns)
    IN  subtract(Reindexed(exposures1, idx, cols), Reindexed(exposures2, idx, cols))

\* plot_exposures_diff(portfolio_idx1, portfolio_idx2, time_period) with the
\* two indices drawn from pairs (lines 322-341, benchmark None).
PlotExposuresDiff(pairs) ==
    /\ mp_pc = "ready"
    /\ \E pr \in pairs, tp \in TimePeriods :
          /\ mp_args' = [portfolio_idx1 |-> pr[1], portfolio_idx2 |-> pr[2],
                         time_period |-> tp]
          /\ IF Position(portfolio_datas, pr[1]) = 0 \/ Position(portfolio_datas, pr[2]) = 0
             THEN /\ mp_raised' = "IndexError"
                  /\ mp_ret' = NoTable
             ELSE /\ mp_raised' = None
                  /\ mp_ret' = ExposuresDiff(get_exposures(PortfolioAt(pr[1]), tp),
                                             get_exposures(PortfolioAt(pr[2]), tp))
    /\ mp_last' = "plot_exposures_diff"
    /\ UNCHANGED <<portfolio_datas, benchmark_prices, navs, mp_pc, mp_attached, mp_freq,
                   diff_args, diff_raw, diff>>
    /\ UNCHANGED notMpVars

\* The attribution of portfolio p to instrument number k, when it is not zero.
PerfValue(p, k) == 3 * p + k

\* The attribution series a portfolio may have: any instruments, any of them
\* with a zero attribution.
PerformanceSeries(p) ==
    { [name |-> PortfolioNames[p], index |-> InOrder(Instruments, C),
       val |-> [c \in C |-> IF c \in Z THEN 0 ELSE PerfValue(p, InstrumentNo(c))]] :
        C \in (SUBSET Range(Instruments)) \ {{}}, Z \in SUBSET Range(Instruments) }

DefaultPerformance(p) ==
    [name |-> PortfolioNames[p], index |-> Instruments,
     val |-> [c \in Range(Instruments) |-> PerfValue(p, InstrumentNo(c))]]

\* PortfolioData.get_performance_data(attribution_metric, time_period): the
\* attribution of the portfolio by instrument.
get_performance_data(portfolio) == portfolio.performance

\* pd.concat(datas, axis=1) (line 479) of series indexed by instrument: one
\* column per series, on the union of the instruments, NaN where a series has
\* no entry.
ConcatByInstrument(datas) ==
    LET idx == IF \A i \in DOMAIN datas : datas[i].index = datas[1].index
               THEN datas[1].index
               ELSE InOrder(Instruments,
                            UNION { Range(datas[i].index) : i \in DOMAIN datas })
    IN  [index |-> idx,
         columns |-> [i \in DOMAIN datas |-> datas[i].name],
         val |-> [r \in Range(idx) |->
                    [c \in { datas[i].name : i \in DOMAIN datas } |->
                        LET d == datas[CHOOSE i \in DOMAIN datas : datas[i].name = c]
                        IN  IF r \in Range(d.index) THEN d.val[r] ELSE NaN]]]

\* Row a sorts strictly before row b in descending order of key, NaN last.
SortsBefore(a, b, key) == key[a] # NaN /\ (key[b] = NaN \/ key[a] > key[b])

RECURSIVE InsertSorted(_, _, _)
InsertSorted(sorted, x, key) ==
    IF sorted = <<>> THEN <<x>>
    ELSE IF SortsBefore(x, sorted[1], key) THEN <<x>> \o sorted
    ELSE <<sorted[1]>> \o InsertSorted(Tail(sorted), x, key)

RECURSIVE SortedLabels(_, _)
SortedLabels(labels, key) ==
    IF labels = <<>> THEN <<>>
    ELSE InsertSorted(SortedLabels(SubSeq(labels, 1, Len(labels) - 1), key),
                      labels[Len(labels)], key)

\* data.sort_values(data.columns[0], ascending=False) (line 480)
sort_values(data) ==
    [data EXCEPT !.index =
        SortedLabels(data.index, [r \in Range(data.index) |-> data.val[r][data.columns[1]]])]

\* data.replace({0.0: np.nan}) (line 486)
replace_zero(data) ==
    [data EXCEPT !.val = [r \in Range(data.index) |-> [c \in Range(data.columns) |->
                             IF data.val[r][c] = 0 THEN NaN ELSE data.val[r][c]]]]

\* data.dropna() (line 486): the rows with no NaN.
dropna(data) ==
    LET idx == SelectSeq(data.index,
                         LAMBDA r : \A c \in Range(data.columns) : data.val[r][c] # NaN)
    IN  [index |-> idx, columns |-> data.columns,
         val |-> [r \in Range(idx) |-> data.val[r]]]

\* The lists of portfolio ids a caller may pass: positions in range, each once.
PortfolioIdLists ==
    LET n == Len(portfolio_datas)
    IN  { <<i>> : i \in 0..(n - 1) } \cup
        { pr \in (0..(n - 1)) \X (0..(n - 1)) : pr[1] # pr[2] }

\* plot_performance_attribution(portfolio_ids) (lines 468-492): the table
\* handed to plot_bars.
PlotPerformanceAttribution ==
    /\ mp_pc = "ready"
    /\ \E ids \in PortfolioIdLists :
          LET datas == [k \in DOMAIN ids |-> get_performance_data(PortfolioAt(ids[k]))]
              data == sort_values(ConcatByInstrument(datas))
          IN  /\ mp_args' = [portfolio_ids |-> ids]
              /\ mp_ret' = dropna(replace_zero(data))
    /\ mp_raised' = None
    /\ mp_last' = "plot_performance_attribution"
    /\ UNCHANGED <<portfolio_datas, benchmark_prices, navs, mp_pc, mp_attached, mp_freq,
                   diff_args, diff_raw, diff>>
    /\ UNCHANGED notMpVars

\* A per-period series of a portfolio on the timestamps S: the value at t is
\* b^t, so that a sum of values tells which observations went into it.
FlowSeries(b, S) ==
    [name |-> "agg", index |-> SortedSeq(S), val |-> [t \in S |-> b ^ t]]

\* PortfolioData.get_turnover(roll_period=None, is_agg=True) and
\* PortfolioData.get_costs(roll_period=None, is_agg=True): the portfolio's
\* per-period turnover and cost series, not rolled.
get_turnover(portfolio) == portfolio.turnover
get_costs(portfolio) == portfolio.costs

\* df.rolling(roll_period).sum(): the sum over the last roll_period rows, NaN
\* while there are fewer rows or when one of them is NaN (min_periods is the
\* window).
rolling_sum(df, roll_period) ==
    [df EXCEPT !.val = [t \in Range(df.index) |-> [c \in Range(df.columns) |->
        LET i == CHOOSE k \in DOMAIN df.index : df.index[k] = t
            window == { df.index[k] : k \in { j \in DOMAIN df.index :
                                                 j > i - roll_period /\ j <= i } }
        IN  IF i < roll_period \/ \E u \in window : df.val[u][c] = NaN
            THEN NaN
            ELSE NanSum([u \in window |-> df.val[u][c]], window)]]]

\* Lines 355-359 and 382-386: pd.concat(axis=1), then the rolling sum unless
\* roll_period is None, then time_period.locate unless time_period is None.
MutRollingView(series, roll_period, time_period) ==
    LET joined == concat(series)
        located == IF time_period # <<>> THEN locate(joined, time_period) ELSE joined
    IN  IF roll_period # <<>> THEN rolling_sum(located, roll_period[1]) ELSE located
RollingView(series, roll_period, time_period) ==
    LET joined == concat(series)
        rolled == IF roll_period # <<>> THEN rolling_sum(joined, roll_period[1])
                  ELSE joined
    IN  IF time_period # <<>> THEN locate(rolled, time_period) ELSE rolled

\* roll_period: None or a window length (the default of 260 rows is beyond the
\* histories here).
RollPeriods == {<<>>, <<1>>, <<2>>}

\* plot_turnover(roll_period, time_period) (lines 343-369, benchmark None): the
\* table handed to plot_time_series.
PlotTurnover ==
    /\ mp_pc = "ready"
    /\ \E roll_period \in RollPeriods, time_period \in TimePeriods :
          LET turnover == [i \in DOMAIN portfolio_datas |->
                             [get_turnover(portfolio_datas[i])
                                 EXCEPT !.name = portfolio_datas[i].nav.name]]
          IN  /\ mp_args' = [roll_period |-> roll_period, time_period |-> time_period]
              /\ mp_ret' = RollingView(turnover, roll_period, time_period)
    /\ mp_raised' = None
    /\ mp_last' = "plot_turnover"
    /\ UNCHANGED <<portfolio_datas, benchmark_prices, navs, mp_pc, mp_attached, mp_freq,
                   diff_args, diff_raw, diff>>
    /\ UNCHANGED notMpVars

\* plot_costs(roll_period, time_period) (lines 371-395, benchmark None): the
\* table handed to plot_time_series.
PlotCosts ==
    /\ mp_pc = "ready"
    /\ \E roll_period \in RollPeriods, time_period \in TimePeriods :
          LET costs == [i \in DOMAIN portfolio_datas |->
                          [get_costs(portfolio_datas[i])
                              EXCEPT !.name = portfolio_datas[i].nav.name]]
          IN  /\ mp_args' = [roll_period |-> roll_period, time_period |-> time_period]
              /\ mp_ret' = RollingView(costs, roll_period, time_period)
    /\ mp_raised' = None
    /\ mp_last' = "plot_costs"
    /\ UNCHANGED <<portfolio_datas, benchmark_prices, navs, mp_pc, mp_attached, mp_freq,
                   diff_args, diff_raw, diff>>
    /\ UNCHANGED notMpVars

\* PortfolioData.get_ac_navs(time_period): the columns of the table it returns,
\* the portfolio's own NAV and one NAV per asset class.
portfolio_get_ac_navs_columns(portfolio) == <<portfolio.nav.name>> \o portfolio.group_order

\* rows_edge_lines after k iterations of the loop of lines 243-251.
RECURSIVE rows_edge_lines(_)
rows_edge_lines(k) ==
    IF k = 0 THEN <<Len(portfolio_datas)>>
    ELSE LET prev == rows_edge_lines(k - 1)
             portfolio_name == portfolio_datas[k].nav.name
             ac_columns == SelectSeq(portfolio_get_ac_navs_columns(portfolio_datas[k]),
                                     LAMBDA c : c # portfolio_name)
         IN  Append(prev, SumSeq(prev) + Len(ac_columns))

\* The columns of ac_prices after k iterations (lines 248-250, 253): each
\* asset class under the label f"{portfolio_name}-{x}", here the pair.
RECURSIVE ac_prices_columns(_)
ac_prices_columns(k) ==
    IF k = 0 THEN <<>>
    ELSE LET portfolio_name == portfolio_datas[k].nav.name
             ac_columns == SelectSeq(portfolio_get_ac_navs_columns(portfolio_datas[k]),
                                     LAMBDA c : c # portfolio_name)
         IN  ac_prices_columns(k - 1) \o
             [j \in DOMAIN ac_columns |-> <<portfolio_name, ac_columns[j]>>]

\* plot_ac_ra_perf_table(benchmark_price) (lines 234-265): the rows of the table
\* drawn (the columns of prices but the benchmark, which drop_benchmark
\* removes) and the row boundaries handed to the table renderer.
PlotAcRaPerfTable ==
    /\ mp_pc = "ready"
    /\ LET n == Len(portfolio_datas)
           strategy_prices == [i \in 1..n |-> <<portfolio_datas[i].nav.name>>]
       IN  mp_ret' = [rows |-> strategy_prices \o ac_prices_columns(n),
                      rows_edge_lines |-> rows_edge_lines(n)]
    /\ mp_args' = <<>>
    /\ mp_raised' = None
    /\ mp_last' = "plot_ac_ra_perf_table"
    /\ UNCHANGED <<portfolio_datas, benchmark_prices, navs, mp_pc, mp_attached, mp_freq,
                   diff_args, diff_raw, diff>>
    /\ UNCHANGED notMpVars

(***************************************************************************)
(* The getters and the reports that read navs and benchmark_prices.  An    *)
(* operator that models a method gives the exception it raises (None when  *)
(* it returns) and its value.                                              *)
(***************************************************************************)
\* What a report leaves alone besides navs.
ReportFrame ==
    /\ UNCHANGED <<portfolio_datas, benchmark_prices, mp_pc, mp_attached, mp_freq,
                   diff_args, diff_raw, diff>>
    /\ UNCHANGED notMpVars

\* The benchmark names a caller passes: no benchmark, or a column of the table.
BenchmarkArgs == {None} \cup Range(BenchmarkColumns)

Raise(exception) == [raised |-> exception, value |-> <<>>]
Return(v) == [raised |-> None, value |-> v]

\* tbl[c]: the column c of a table, as a series.
ColumnSeries(tbl, c) ==
    [name |-> c, index |-> tbl.index, val |-> [t \in Range(tbl.index) |-> tbl.val[t][c]]]

\* self.benchmark_prices[benchmark] (lines 79, 88, 117): TypeError when
\* benchmark_prices is None, KeyError when the table has no such column.
MutBenchmarkColumn(benchmark) ==
    IF benchmark_prices = <<>>
    THEN Return([name |-> benchmark, index |-> <<>>, val |-> <<>>])
    ELSE IF benchmark \notin Range(benchmark_prices[1].columns) THEN Raise("KeyError")
    ELSE Return(ColumnSeries(benchmark_prices[1], benchmark))
BenchmarkColumn(benchmark) ==
    IF benchmark_prices = <<>> THEN Raise("TypeError")
    ELSE IF benchmark \notin Range(benchmark_prices[1].columns) THEN Raise("KeyError")
    ELSE Return(ColumnSeries(benchmark_prices[1], benchmark))

\* time_period.locate(series)
locate_series(series, time_period) ==
    LET idx == SelectSeq(series.index, LAMBDA t : t >= time_period[1].start)
    IN  [name |-> series.name, index |-> idx, val |-> [t \in Range(idx) |-> series.val[t]]]

\* tbl.ffill(): each NaN takes the last value of its column above it, if any.
ffill(tbl) ==
    [tbl EXCEPT !.val = [t \in Range(tbl.index) |-> [c \in Range(tbl.columns) |->
        LET prior == { u \in Range(tbl.index) : u <= t /\ tbl.val[u][c] # NaN }
        IN  IF prior = {} THEN NaN ELSE tbl.val[SetMax(prior)][c]]]]

\* get_navs(benchmark, time_period) (lines 70-82): its outcome and the value of
\* self.navs it leaves (navs is a local name: self.navs is never assigned).
MutGetNavs(benchmark, time_period) ==
    LET col == IF benchmark # None THEN BenchmarkColumn(benchmark) ELSE Return(<<>>)
    IN  IF col.raised # None THEN [raised |-> col.raised, value |-> <<>>, navs |-> navs]
        ELSE LET with == IF benchmark # None
                         THEN ffill(concat(<<col.value>> \o
                                  [i \in DOMAIN navs.columns |->
                                      ColumnSeries(navs, navs.columns[i])]))
                         ELSE navs
                 located == IF time_period # <<>> THEN locate(with, time_period) ELSE with
             IN  [raised |-> None, value |-> located, navs |-> located]
get_navs(benchmark, time_period) ==
    LET col == IF benchmark # None THEN BenchmarkColumn(benchmark) ELSE Return(<<>>)
    IN  IF col.raised # None THEN [raised |-> col.raised, value |-> <<>>, navs |-> navs]
        ELSE LET with == IF benchmark # None
                         THEN ffill(concat(<<col.value>> \o
                                  [i \in DOMAIN navs.columns |->
                                      ColumnSeries(navs, navs.columns[i])]))
                         ELSE navs
                 located == IF time_period # <<>> THEN locate(with, time_period) ELSE with
             IN  [raised |-> None, value |-> located, navs |-> navs]

\* get_benchmark_price(benchmark, time_period) (lines 84-91)
get_benchmark_price(benchmark, time_period) ==
    LET col == BenchmarkColumn(benchmark)
    IN  IF col.raised # None THEN col
        ELSE IF time_period # <<>> THEN Return(locate_series(col.value, time_period))
        ELSE col

\* get_ac_navs(portfolio_idx, benchmark, time_period) (lines 93-103), for an
\* index in range; the value is the list of the columns of the table returned.
\* self.benchmark_prices.columns raises AttributeError when the table is None.
get_ac_navs(portfolio_idx, benchmark, time_period) ==
    LET prices == portfolio_get_ac_navs_columns(PortfolioAt(portfolio_idx))
    IN  IF benchmark = None THEN Return([columns |-> prices])
        ELSE IF benchmark_prices = <<>> THEN Raise("AttributeError")
        ELSE LET benchmark_price ==
                     get_benchmark_price(benchmark_prices[1].columns[1], time_period)
             IN  IF benchmark_price.raised # None THEN benchmark_price
                 ELSE Return([columns |-> prices \o <<benchmark_price.value.name>>])

\* series.reindex(index=idx, method='ffill')
ReindexSeriesFfill(series, idx) ==
    [name |-> series.name, index |-> idx,
     val |-> [t \in Range(idx) |->
                LET prior == { u \in Range(series.index) : u <= t }
                IN  IF prior = {} THEN NaN ELSE series.val[SetMax(prior)]]]

\* add_regime_shadows(ax, regime_benchmark, index) (lines 108-120): the
\* pivot_prices handed to add_bnb_regime_shadows; index is <<>> for None.
add_regime_shadows(regime_benchmark, index) ==
    LET pivot_prices == BenchmarkColumn(regime_benchmark)
    IN  IF pivot_prices.raised # None THEN pivot_prices
        ELSE IF index # <<>> THEN Return(ReindexSeriesFfill(pivot_prices.value, index[1]))
        ELSE pivot_prices

\* A call of get_navs.
GetNavs ==
    /\ mp_pc = "ready"
    /\ \E benchmark \in BenchmarkArgs, tp \in TimePeriods :
          LET r == get_navs(benchmark, tp)
          IN  /\ mp_args' = [benchmark |-> benchmark, time_period |-> tp]
              /\ mp_raised' = r.raised
              /\ mp_ret' = r.value
              /\ navs' = r.navs
    /\ mp_last' = "get_navs"
    /\ ReportFrame

\* A call of get_benchmark_price.
GetBenchmarkPrice ==
    /\ mp_pc = "ready"
    /\ \E benchmark \in Range(BenchmarkColumns), tp \in TimePeriods :
          LET r == get_benchmark_price(benchmark, tp)
          IN  /\ mp_args' = [benchmark |-> benchmark, time_period |-> tp]
              /\ mp_raised' = r.raised
              /\ mp_ret' = r.value
    /\ mp_last' = "get_benchmark_price"
    /\ UNCHANGED navs
    /\ ReportFrame

\* A call of get_ac_navs.
GetAcNavs ==
    /\ mp_pc = "ready"
    /\ \E idx \in 0..(Len(portfolio_datas) - 1), benchmark \in BenchmarkArgs :
          LET r == get_ac_navs(idx, benchmark, <<>>)
          IN  /\ mp_args' = [benchmark |-> benchmark, portfolio_idx |-> idx]
              /\ mp_raised' = r.raised
              /\ mp_ret' = r.value
    /\ mp_last' = "get_ac_navs"
    /\ UNCHANGED navs
    /\ ReportFrame

\* A call of add_regime_shadows, with no index or with the index of navs.
AddRegimeShadows ==
    /\ mp_pc = "ready"
    /\ \E benchmark \in Range(BenchmarkColumns), index \in {<<>>, Some(navs.index)} :
          LET r == add_regime_shadows(benchmark, index)
          IN  /\ mp_args' = [benchmark |-> benchmark, index |-> index]
              /\ mp_raised' = r.raised
              /\ mp_ret' = r.value
    /\ mp_last' = "add_regime_shadows"
    /\ UNCHANGED navs
    /\ ReportFrame

\* plot_ra_perf_table(time_period) (lines 217-232): the prices handed to the
\* table renderer; line 223 raises AttributeError when the table is None.
PlotRaPerfTable ==
    /\ mp_pc = "ready"
    /\ \E tp \in TimePeriods :
          /\ mp_args' = [benchmark |-> None, time_period |-> tp]
          /\ IF benchmark_prices = <<>>
             THEN /\ mp_raised' = "AttributeError"
                  /\ mp_ret' = <<>>
                  /\ UNCHANGED navs
             ELSE LET r == get_navs(benchmark_prices[1].columns[1], tp)
                  IN  /\ mp_raised' = r.raised
                      /\ mp_ret' = r.value
                      /\ navs' = r.navs
    /\ mp_last' = "plot_ra_perf_table"
    /\ ReportFrame

\* plot_returns_scatter(benchmark, time_period) (lines 447-466)
PlotReturnsScatter ==
    /\ mp_pc = "ready"
    /\ \E benchmark \in Range(BenchmarkColumns), tp \in TimePeriods :
          LET r == get_navs(benchmark, tp)
          IN  /\ mp_args' = [benchmark |-> benchmark, time_period |-> tp]
              /\ mp_raised' = r.raised
              /\ mp_ret' = r.value
              /\ navs' = r.navs
    /\ mp_last' = "plot_returns_scatter"
    /\ ReportFrame

\* plot_regime_data(benchmark, is_grouped, portfolio_idx) (lines 512-549): the
\* columns of the prices handed to qis.plot_regime_data with benchmark.
PlotRegimeData ==
    /\ mp_pc = "ready"
    /\ \E benchmark \in Range(BenchmarkColumns), is_grouped \in BOOLEAN,
          idx \in 0..(Len(portfolio_datas) - 1) :
          /\ mp_args' = [benchmark |-> benchmark, is_grouped |-> is_grouped,
                         portfolio_idx |-> idx]
          /\ IF is_grouped
             THEN LET r == get_ac_navs(idx, benchmark, <<>>)
                  IN  /\ mp_raised' = r.raised
                      /\ mp_ret' = r.value
                      /\ UNCHANGED navs
             ELSE LET r == get_navs(benchmark, <<>>)
                  IN  /\ mp_raised' = r.raised
                      /\ mp_ret' = IF r.raised = None THEN [columns |-> r.value.columns]
                                   ELSE <<>>
                      /\ navs' = r.navs
    /\ mp_last' = "plot_regime_data"
    /\ ReportFrame

\* plot_nav(time_period, regime_benchmark) (lines 122-139): the prices are
\* drawn, then the regime shadows are added when a benchmark is given.
PlotNav ==
    /\ mp_pc = "ready"
    /\ \E benchmark \in BenchmarkArgs, tp \in TimePeriods :
          LET prices == get_navs(None, tp)
              shadows == IF benchmark # None
                         THEN add_regime_shadows(benchmark, Some(prices.value.index))
                         ELSE Return(<<>>)
          IN  /\ mp_args' = [benchmark |-> benchmark, time_period |-> tp]
              /\ mp_raised' = shadows.raised
              /\ mp_ret' = prices.value
              /\ navs' = prices.navs
    /\ mp_last' = "plot_nav"
    /\ ReportFrame

\* plot_drawdowns and plot_rolling_time_under_water (lines 189-215): with one
\* portfolio the benchmark is drawn with the NAV.
PlotDrawdowns ==
    /\ mp_pc = "ready"
    /\ \E benchmark \in BenchmarkArgs, tp \in TimePeriods,
          op \in {"plot_drawdowns", "plot_rolling_time_under_water"} :
          LET prices == IF Len(portfolio_datas) = 1 /\ benchmark # None
                        THEN get_navs(benchmark, tp)
                        ELSE get_navs(None, tp)
              shadows == IF prices.raised # None THEN prices
                         ELSE IF benchmark # None
                         THEN add_regime_shadows(benchmark, Some(prices.value.index))
                         ELSE Return(<<>>)
          IN  /\ mp_args' = [benchmark |-> benchmark, time_period |-> tp]
              /\ mp_raised' = shadows.raised
              /\ mp_ret' = prices.value
              /\ navs' = prices.navs
              /\ mp_last' = op
    /\ ReportFrame

\* The reports on the portfolios' own data that end with
\* "if benchmark is not None: self.add_regime_shadows(...)": lines 284-285,
\* 319-320, 340-341, 368-369, 394-395, and 427-428 for the first of the factors
\* of plot_factor_betas.  Their tables are not modelled here.
ShadowedPlots ==
    {"plot_exposures", "plot_instrument_pnl_diff", "plot_exposures_diff",
     "plot_turnover", "plot_costs", "plot_factor_betas"}

PlotWithRegimeShadows ==
    /\ mp_pc = "ready"
    /\ \E op \in ShadowedPlots, benchmark \in Range(BenchmarkColumns) :
          LET shadows == add_regime_shadows(benchmark, Some(SortedSeq(PnlTimes)))
          IN  /\ mp_args' = [benchmark |-> benchmark]
              /\ mp_raised' = shadows.raised
              /\ mp_ret' = <<>>
              /\ mp_last' = op
    /\ UNCHANGED navs
    /\ ReportFrame

(***************************************************************************)
(* The aggregator's behaviours.                                            *)
(***************************************************************************)
\* The full P&L table of portfolio p, for when the report is not about P&L.
DefaultPnl(p) ==
    [index |-> SortedSeq(PnlTimes), columns |-> Instruments,
     val |-> [t \in PnlTimes |-> [c \in Range(Instruments) |->
                 PnlValue(p, t, InstrumentNo(c))]]]

Portfolio(p, nav_index, pnl, g) ==
    [nav |-> NavSeries(p, nav_index), instrument_pnl |-> pnl,
     group_data |-> g, group_order |-> GroupOrder,
     exposures |-> DefaultExposures(p), performance |-> DefaultPerformance(p),
     turnover |-> FlowSeries(p + 1, Times), costs |-> FlowSeries(p + 3, Times)]

NoReport ==
    /\ mp_freq = "None"
    /\ mp_args = <<>>
    /\ mp_raised = None
    /\ mp_ret = <<>>
    /\ diff_args = <<>>
    /\ diff_raw = NoTable
    /\ diff = NoTable

\* No MultiPortfolioData in this behaviour.
MultiIdle ==
    /\ portfolio_datas = <<>>
    /\ benchmark_prices = <<>>
    /\ navs = NoTable
    /\ mp_pc = "idle"
    /\ mp_last = "idle"
    /\ mp_attached = <<>>
    /\ NoReport

\* MultiPortfolioData(portfolio_datas, benchmark_prices) before __post_init__:
\* one or two portfolios whose NAV series have any timestamps.
NavsInit ==
    /\ \E n \in 1..Len(PortfolioNames) :
          portfolio_datas \in
              { [p \in 1..n |-> Portfolio(p, idx[p], DefaultPnl(p), GroupA)] :
                  idx \in [1..n -> (SUBSET Times) \ {{}}] }
    /\ benchmark_prices \in {<<>>} \cup { Some(b) : b \in BenchmarkTables }
    /\ navs = NoTable
    /\ mp_pc = "new"
    /\ mp_last = "new"
    /\ mp_attached = benchmark_prices
    /\ NoReport
    /\ VbarsIdle
    /\ BarsIdle

NavsNext ==
    \/ PostInit
    \/ SetNavs
    \/ SetBenchmarkPrices

allVars == <<vbVars, barVars, mpVars>>

SpecNavs == NavsInit /\ [][NavsNext]_allVars

\* Two portfolios with any instrument P&L tables, classified alike or not.
DiffInit ==
    /\ \E pnl1 \in PnlTables(1), pnl2 \in PnlTables(2), g2 \in {GroupA, GroupB} :
          portfolio_datas = << Portfolio(1, Times, pnl1, GroupA),
                               Portfolio(2, Times, pnl2, g2) >>
    /\ benchmark_prices = <<>>
    /\ navs = NoTable
    /\ mp_pc = "new"
    /\ mp_last = "new"
    /\ mp_attached = <<>>
    /\ NoReport
    /\ VbarsIdle
    /\ BarsIdle

\* The object is built, then one report is drawn.
DiffNext ==
    \/ PostInit
    \/ mp_last = "__post_init__" /\ PlotInstrumentPnlDiff({<<0, 1>>, <<1, 0>>})

SpecDiff == DiffInit /\ [][DiffNext]_allVars

\* The object with one or two portfolios, the second without the first NAV
\* timestamp, and no benchmark table or any benchmark table.
ReportsInit ==
    /\ \E n \in 1..Len(PortfolioNames) :
          portfolio_datas =
              [p \in 1..n |-> Portfolio(p, Times \ {p - 1}, DefaultPnl(p), GroupA)]
    /\ benchmark_prices \in {<<>>} \cup { Some(b) : b \in BenchmarkTables }
    /\ navs = NoTable
    /\ mp_pc = "new"
    /\ mp_last = "new"
    /\ mp_attached = benchmark_prices
    /\ NoReport
    /\ VbarsIdle
    /\ BarsIdle

\* The object is built; then come, in any order, a set_navs, attaching a
\* benchmark table, and the getters and reports.
ReportsNext ==
    \/ PostInit
    \/ SetNavs
    \/ SetBenchmarkPrices
    \/ GetNavs
    \/ GetBenchmarkPrice
    \/ GetAcNavs
    \/ AddRegimeShadows
    \/ PlotRaPerfTable
    \/ PlotReturnsScatter
    \/ PlotRegimeData
    \/ PlotNav
    \/ PlotDrawdowns
    \/ PlotWithRegimeShadows

SpecReports == ReportsInit /\ [][ReportsNext]_allVars

\* The asset classes a portfolio may be broken into.
GroupOrders == { SubSeq(GroupOrder, 1, k) : k \in 1..Len(GroupOrder) }

\* One or two portfolios; each has any grouped exposures, any attribution
\* series, any asset classes or any trading history (the rest of its data is
\* the default).
PortfolioReportsInit ==
    /\ \E n \in 1..Len(PortfolioNames) :
          \/ portfolio_datas \in
                { [p \in 1..n |-> [Portfolio(p, Times, DefaultPnl(p), GroupA)
                                      EXCEPT !.exposures = e[p]]] :
                    e \in [1..n -> UNION { ExposureTables(p) : p \in 1..n }] }
             /\ \A p \in 1..n : portfolio_datas[p].exposures \in ExposureTables(p)
          \/ portfolio_datas \in
                { [p \in 1..n |-> [Portfolio(p, Times, DefaultPnl(p), GroupA)
                                      EXCEPT !.performance = s[p]]] :
                    s \in [1..n -> UNION { PerformanceSeries(p) : p \in 1..n }] }
             /\ \A p \in 1..n : portfolio_datas[p].performance \in PerformanceSeries(p)
          \/ portfolio_datas \in
                { [p \in 1..n |-> [Portfolio(p, Times, DefaultPnl(p), GroupA)
                                      EXCEPT !.group_order = o[p]]] :
                    o \in [1..n -> GroupOrders] }
          \/ portfolio_datas \in
                { [p \in 1..n |-> [Portfolio(p, Times, DefaultPnl(p), GroupA)
                                      EXCEPT !.turnover = FlowSeries(p + 1, S[p]),
                                             !.costs = FlowSeries(p + 3, S[p])]] :
                    S \in [1..n -> (SUBSET Times) \ {{}}] }
    /\ benchmark_prices = <<>>
    /\ navs = NoTable
    /\ mp_pc = "new"
    /\ mp_last = "new"
    /\ mp_attached = <<>>
    /\ NoReport
    /\ VbarsIdle
    /\ BarsIdle

\* The object is built, then one report is drawn.
PortfolioReportsNext ==
    \/ PostInit
    \/ mp_last = "__post_init__" /\
           PlotInstrumentPnlDiff(PortfolioIndices \X PortfolioIndices)
    \/ mp_last = "__post_init__" /\
           PlotExposuresDiff(PortfolioIndices \X PortfolioIndices)
    \/ mp_last = "__post_init__" /\ PlotPerformanceAttribution
    \/ mp_last = "__post_init__" /\ PlotAcRaPerfTable
    \/ mp_last = "__post_init__" /\ PlotTurnover
    \/ mp_last = "__post_init__" /\ PlotCosts

SpecPortfolioReports == PortfolioReportsInit /\ [][PortfolioReportsNext]_allVars

(***************************************************************************)
(* The renderers: a behaviour is one plot_vbars call, or the calls of      *)
(* plot_bars on a list of tables.                                          *)
(***************************************************************************)
PlotsInit ==
    /\ \/ VbarsInit /\ BarsIdle
       \/ BarsInit /\ VbarsIdle
    /\ MultiIdle

PlotsNext ==
    \/ VbarsSubplots
    \/ VbarsNegative
    \/ VbarsResetStarts
    \/ VbarsPositive
    \/ VbarsReturn
    \/ PlotBars

SpecPlots == PlotsInit /\ [][PlotsNext]_allVars

\* One plot_bars call with value labels.
LabelsInit == BarLabelsInit /\ VbarsIdle /\ MultiIdle

LabelsNext == PlotBars

SpecLabels == LabelsInit /\ [][LabelsNext]_allVars

\* plot_vbars called on one table, once or more.
IndexInit == VbarsIndexInit /\ BarsIdle /\ MultiIdle

IndexNext ==
    \/ VbarsSubplots
    \/ VbarsNegative
    \/ VbarsResetStarts
    \/ VbarsPositive
    \/ VbarsReturn
    \/ VbarsCallAgain

SpecIndex == IndexInit /\ [][IndexNext]_allVars

\* One plot_vbars call that leaves the colours to plot_vbars.
ColorsInit == VbarsColorInit /\ BarsIdle /\ MultiIdle

ColorsNext ==
    \/ VbarsSubplots
    \/ VbarsIndexError
    \/ VbarsNegative
    \/ VbarsResetStarts
    \/ VbarsPositive
    \/ VbarsReturn

SpecColors == ColorsInit /\ [][ColorsNext]_allVars

(***************************************************************************)
(* Properties of the renderers, checked under SpecPlots.                   *)
(***************************************************************************)
VbarsDone == vb_pc = "done"

\* The signed sum of the widths drawn for row y: negative-pass segments count
\* negative, positive-pass segments positive.
RECURSIVE SignedWidthSum(_, _)
SignedWidthSum(calls, y) ==
    IF calls = <<>> THEN 0
    ELSE (IF calls[1].pass = "positive" THEN calls[1].width[y]
          ELSE 0 - calls[1].width[y]) + SignedWidthSum(Tail(calls), y)

\* C1: when plot_vbars has returned, for every row the signed sum of the widths
\* of the segments drawn for it over both stacking passes equals the sum of
\* the row's input values.
C1_SignedWidthsSumToRow ==
    VbarsDone => \A y \in Rows : SignedWidthSum(vb_barh, y) = SumSeq(np_data[y])

\* A finished call on a row that mixes a negative and a positive cell and does
\* not sum to zero.
C1_Witness ==
    /\ VbarsDone
    /\ \E y \in Rows : \E a, b \in 1..NCols :
          /\ np_data[y][a] < 0
          /\ np_data[y][b] > 0
          /\ SumSeq(np_data[y]) # 0

\* Number of value annotations written for the cell (y, c), over both passes.
TextCount(y, c) ==
    Cardinality({ k \in DOMAIN vb_text : vb_text[k].row = y /\ vb_text[k].col = c })

\* C2 as stated: a zero cell is never annotated; with is_add_bar_values every
\* non-zero cell is annotated exactly once over the two passes, and without it
\* no cell is annotated.
C2_NonZeroAnnotatedOnce ==
    VbarsDone =>
        \A y \in Rows : \A c \in 1..NCols :
            /\ np_data[y][c] = 0 => TextCount(y, c) = 0
            /\ (vb_args.is_add_bar_values /\ np_data[y][c] # 0) => TextCount(y, c) = 1
            /\ ~ vb_args.is_add_bar_values => TextCount(y, c) = 0

\* C2 (amended): a cell within numpy.isclose's tolerance of zero (|c| <= 1e-8),
\* zero included, is never annotated, whatever the toggles; with
\* is_add_bar_values every cell beyond the tolerance is annotated exactly once
\* over the two passes, and without it no cell is annotated.
C2_BeyondToleranceAnnotatedOnce ==
    VbarsDone =>
        \A y \in Rows : \A c \in 1..NCols :
            TextCount(y, c) =
                IF vb_args.is_add_bar_values /\ Abs(np_data[y][c]) > IsCloseAtol
                THEN 1 ELSE 0

\* A finished call with annotation on, a percentage label and a fixed x-location,
\* on a table holding a zero cell, a cell within the tolerance and one beyond it.
C2_Witness ==
    /\ VbarsDone
    /\ vb_args.is_add_bar_values
    /\ vb_args.add_bar_perc_values
    /\ ~ vb_args.add_bar_value_at_mid
    /\ \E y1, y2, y3 \in Rows : \E c1, c2, c3 \in 1..NCols :
          /\ np_data[y1][c1] = 0
          /\ Abs(np_data[y2][c2]) = IsCloseAtol
          /\ np_data[y3][c3] < 0 - IsCloseAtol

\* The surface of the k-th plot_bars call.
AxOf(k) == IF bar_args.ax = None THEN FigNames[k] ELSE CallerAxs[k]

BarCallsDone == 1..(bar_k - 1)

\* The marker lies within the slot of category i (from 1) of a chart of m series.
InSlot(marker, i, m) ==
    /\ marker.x_min >= 10 * m * (i - 1) - 5 * m
    /\ marker.x_max <= 10 * m * (i - 1) + 5 * m

\* C3: when totals is supplied to plot_bars, a total marker is drawn for every
\* category, and the marker of category i shows totals[i]: for a Series and for
\* a table of several columns, stacked or not.
C3_TotalMarkerPerCategory ==
    \A k \in BarCallsDone :
        bar_args.totals # NoTotals =>
            LET df == bar_datas[k]
                m == Len(df.columns)
                markers == bar_ax[AxOf(k)].markers
            IN  /\ Len(markers) = Len(df.index)
                /\ \A i \in DOMAIN df.index :
                      /\ \E n \in DOMAIN markers : InSlot(markers[n], i, m)
                      /\ \A n \in DOMAIN markers :
                            InSlot(markers[n], i, m) =>
                                markers[n].total = bar_args.totals[i]

\* A rendered two-column, two-row table with two different totals.
C3_Witness ==
    \E k \in BarCallsDone :
        /\ Len(bar_datas[k].columns) = 2
        /\ Len(bar_datas[k].index) = 2
        /\ bar_args.totals # NoTotals
        /\ bar_args.totals[1] # bar_args.totals[2]
        /\ bar_args.stacked

\* C8: plot_bars never changes the table passed by its caller: values and
\* index, a timestamp index included, are after the call what they were before.
C8_CallerTableUnchanged == bar_datas = bar_datas0

\* C9: plot_bars and plot_vbars return the figure they created exactly when no
\* ax was supplied; with an ax supplied they return None, draw on that ax and
\* create no surface.
C9_FigureIffNoAx ==
    /\ VbarsDone =>
          IF vb_args.ax = None
          THEN vb_ret = "fig" /\ vb_ax = "fig.ax"
          ELSE vb_ret = None /\ vb_ax = vb_args.ax
    /\ \A k \in BarCallsDone :
          IF bar_args.ax = None
          THEN bar_ret[k] = FigNames[k] /\ FigNames[k] \in DOMAIN bar_ax
          ELSE /\ bar_ret[k] = None
               /\ DOMAIN bar_ax = {CallerAxs[i] : i \in 1..Len(bar_datas)}
               /\ bar_ax[CallerAxs[k]].patches # <<>>

\* Two plot_bars calls on surfaces the caller supplied.
C9_Witness ==
    /\ bar_k = 3
    /\ bar_args.ax # None
    /\ bar_ret = <<None, None>>

\* C10: plot_bars with stacked=False draws exactly one bar per (category,
\* series) pair, categories x series bars in all, each as high as its cell, and
\* the bars on one surface are those of the table rendered on it, whatever was
\* rendered on the other surface.
C10_OneBarPerCell ==
    \A k \in BarCallsDone :
        ~ bar_args.stacked =>
            LET df == bar_datas[k]
                m == Len(df.columns)
                patches == bar_ax[AxOf(k)].patches
            IN  /\ Len(patches) = Len(df.index) * m
                /\ \A i \in DOMAIN df.index : \A j \in 1..m :
                      Cardinality({ n \in DOMAIN patches :
                          /\ patches[n].x = 10 * m * (i - 1) - 4 * m + 8 * (j - 1)
                          /\ patches[n].height = df.values[i][j] }) = 1

\* Two tables of different shapes rendered ungrouped on two surfaces.
C10_Witness ==
    /\ bar_k = 3
    /\ ~ bar_args.stacked
    /\ Len(bar_datas[1].columns) = 2
    /\ Len(bar_datas[1].index) = 2
    /\ Len(bar_datas[2].columns) = 1

(***************************************************************************)
(* Properties of the aggregator, checked under SpecDiff and SpecNavs.      *)
(***************************************************************************)
DiffDrawn == mp_last = "plot_instrument_pnl_diff" /\ mp_raised = None

Negated(v) == IF v = NaN THEN NaN ELSE 0 - v

\* d1 is the negation of d2, cell by cell: same timestamps, as many columns,
\* the same labels but for the total column of a grouped table (named after the
\* ordered pair), and each cell of d1 the negative of the cell of d2 in its place.
IsNegationOf(d1, d2, is_grouped) ==
    /\ d1.index = d2.index
    /\ Len(d1.columns) = Len(d2.columns)
    /\ \A k \in DOMAIN d1.columns :
          /\ d1.columns[k] = d2.columns[k] \/ (is_grouped /\ k = 1)
          /\ \A t \in Range(d1.index) :
                d1.val[t][d1.columns[k]] = Negated(d2.val[t][d2.columns[k]])

SwappedDiff ==
    PnlDiffTable(diff_args.portfolio_idx2, diff_args.portfolio_idx1,
                 diff_args.is_grouped, diff_args.time_period)

\* C4 as stated: for every pair of portfolios, time window and grouping option,
\* the table computed for (A, B) is the negation of the table computed for
\* (B, A), cell by cell.
C4_AntiSymmetric ==
    DiffDrawn => IsNegationOf(diff, SwappedDiff, diff_args.is_grouped)

SameGrouping ==
    LET p1 == PortfolioAt(diff_args.portfolio_idx1)
        p2 == PortfolioAt(diff_args.portfolio_idx2)
    IN  /\ DOMAIN p1.group_data = DOMAIN p2.group_data
        /\ \A c \in DOMAIN p1.group_data : p1.group_data[c] = p2.group_data[c]
        /\ p1.group_order = p2.group_order

\* C4 (amended): the table computed for (A, B) is the negation of the table
\* computed for (B, A), cell by cell, for every pair and time window when
\* is_grouped is False, and when is_grouped is True provided both portfolios
\* have the same group_data and group_order (the grouping is the first
\* portfolio's; the total column is named A-B in one table, B-A in the other).
C4_AntiSymmetricSameGrouping ==
    (DiffDrawn /\ (diff_args.is_grouped => SameGrouping)) =>
        IsNegationOf(diff, SwappedDiff, diff_args.is_grouped)

\* A grouped difference over a time window of two portfolios classified alike
\* that hold both instruments at different timestamps, with a non-zero cell.
C4_Witness ==
    /\ DiffDrawn
    /\ diff_args.is_grouped
    /\ diff_args.time_period # <<>>
    /\ SameGrouping
    /\ Len(portfolio_datas[1].instrument_pnl.columns) = 2
    /\ portfolio_datas[1].instrument_pnl.index # portfolio_datas[2].instrument_pnl.index
    /\ \E t \in Range(diff.index) : diff.val[t]["eq"] # 0 /\ diff.val[t]["fi"] # 0

\* The entry of df at (t, c) with every absent entry (no such row, no such
\* column, or NaN) read as zero.
ZeroFilled(df, t, c) ==
    IF t \in Range(df.index) /\ c \in Range(df.columns) /\ df.val[t][c] # NaN
    THEN df.val[t][c] ELSE 0

\* C5: the difference table of lines 297-301 covers the union of the
\* timestamps and of the instruments of both portfolios, has no missing cell,
\* and each cell is the first portfolio's entry minus the second's with every
\* absent entry taken as zero: so an instrument held by one portfolio only
\* contributes its full signed P&L.
C5_FillThenDiff ==
    DiffDrawn =>
        LET a == PortfolioAt(diff_args.portfolio_idx1).instrument_pnl
            b == PortfolioAt(diff_args.portfolio_idx2).instrument_pnl
        IN  /\ Range(diff_raw.index) = Range(a.index) \cup Range(b.index)
            /\ Range(diff_raw.columns) = Range(a.columns) \cup Range(b.columns)
            /\ \A t \in Range(diff_raw.index) : \A c \in Range(diff_raw.columns) :
                  /\ diff_raw.val[t][c] # NaN
                  /\ diff_raw.val[t][c] = ZeroFilled(a, t, c) - ZeroFilled(b, t, c)
                  /\ c \notin Range(b.columns) => diff_raw.val[t][c] = ZeroFilled(a, t, c)
                  /\ c \notin Range(a.columns) => diff_raw.val[t][c] = 0 - ZeroFilled(b, t, c)

\* A difference of two portfolios that hold different instruments at different
\* timestamps, each with a non-zero P&L that reaches the difference.
C5_Witness ==
    /\ DiffDrawn
    /\ LET a == PortfolioAt(diff_args.portfolio_idx1).instrument_pnl
           b == PortfolioAt(diff_args.portfolio_idx2).instrument_pnl
       IN  /\ a.columns = <<"x">>
           /\ b.columns = <<"y">>
           /\ a.index # b.index
           /\ \E t \in Range(diff_raw.index) : diff_raw.val[t]["x"] > 0
           /\ \E t \in Range(diff_raw.index) : diff_raw.val[t]["y"] < 0

\* C6: once set_navs has run (at construction, directly, or through
\* _set_benchmark_prices), navs has one column per portfolio, in collection
\* order, and its index is strictly increasing.
C6_NavsColumnsAndIndex ==
    mp_pc = "ready" =>
        /\ navs.columns = [i \in DOMAIN portfolio_datas |-> portfolio_datas[i].nav.name]
        /\ IsIncreasing(navs.index)

\* A rebuilt NAV table of two portfolios whose timestamps interleave.
C6_Witness ==
    /\ mp_last = "_set_benchmark_prices"
    /\ Len(portfolio_datas) = 2
    /\ portfolio_datas[1].nav.index = <<1, 3>>
    /\ portfolio_datas[2].nav.index = <<2>>
    /\ navs.index = <<1, 2, 3>>

\* C7: after _set_benchmark_prices the NAV table is rebuilt over all the NAV
\* timestamps, and the stored benchmark table has exactly the NAV table's
\* index, each of its rows being the row of the attached table at the last of
\* its timestamps at or before the NAV timestamp (NaN when there is none).
C7_BenchmarkOnNavIndex ==
    mp_last = "_set_benchmark_prices" =>
        LET b == benchmark_prices[1]
            a == mp_attached[1]
        IN  /\ Range(navs.index) =
                  UNION { Range(portfolio_datas[i].nav.index) : i \in DOMAIN portfolio_datas }
            /\ b.index = navs.index
            /\ b.columns = a.columns
            /\ \A t \in Range(navs.index) : \A c \in Range(a.columns) :
                  LET prior == { u \in Range(a.index) : u <= t }
                  IN  b.val[t][c] = IF prior = {} THEN NaN
                                    ELSE a.val[SetMax(prior)][c]

\* A benchmark attached to an object whose NAV timestamps start before the
\* benchmark's first observation and include one the benchmark does not have.
C7_Witness ==
    /\ mp_last = "_set_benchmark_prices"
    /\ \E t \in Range(navs.index) : benchmark_prices[1].val[t]["SPY"] = NaN
    /\ \E t \in Range(navs.index) :
          /\ t \notin Range(mp_attached[1].index)
          /\ benchmark_prices[1].val[t]["SPY"] # NaN

\* C19: set_navs recomputes the state in full: whatever calls of set_navs and
\* _set_benchmark_prices came before, navs and benchmark_prices are what one
\* set_navs call with the last freq gives from the portfolio list and the
\* benchmark table the caller attached last.
C19_FullRecompute ==
    mp_pc = "ready" =>
        LET r == set_navs(mp_freq, mp_attached)
        IN  /\ navs = r.navs
            /\ benchmark_prices = r.benchmark_prices

(***************************************************************************)
(* Stacking and colours of plot_vbars.                                     *)
(***************************************************************************)
\* The ax.barh call of a pass for column i.
NegCall(i) == vb_barh[i]
PosCall(i) == vb_barh[NCols + i]

NegSum(y) == SumSeq([c \in 1..NCols |-> IF np_data[y][c] < 0 THEN np_data[y][c] ELSE 0])
PosSum(y) == SumSeq([c \in 1..NCols |-> IF np_data[y][c] > 0 THEN np_data[y][c] ELSE 0])

\* C18: in every row, the segments of the negative pass are as wide as the
\* row's negative cells and tile [sum of the negative cells, 0] in column order,
\* those of the positive pass are as wide as the positive cells and tile
\* [0, sum of the positive cells]; the negative pass ends with a running start
\* of 0 in every row, and in a row with no negative cell the first column's
\* segment starts at 0.
C18_SegmentsTile ==
    /\ (vb_pc = "negative" /\ vb_i > NCols) => \A y \in Rows : last_starts[y] = 0
    /\ VbarsDone =>
          /\ Len(vb_barh) = 2 * NCols
          /\ \A i \in 1..NCols :
                /\ NegCall(i).pass = "negative" /\ NegCall(i).col = i
                /\ PosCall(i).pass = "positive" /\ PosCall(i).col = i
          /\ \A y \in Rows :
                /\ NegCall(1).left[y] = NegSum(y)
                /\ PosCall(1).left[y] = 0
                /\ \A i \in 1..NCols :
                      /\ NegCall(i).width[y] =
                            (IF np_data[y][i] < 0 THEN 0 - np_data[y][i] ELSE 0)
                      /\ PosCall(i).width[y] =
                            (IF np_data[y][i] > 0 THEN np_data[y][i] ELSE 0)
                /\ \A i \in 1..(NCols - 1) :
                      /\ NegCall(i + 1).left[y] = NegCall(i).left[y] + NegCall(i).width[y]
                      /\ PosCall(i + 1).left[y] = PosCall(i).left[y] + PosCall(i).width[y]
                /\ NegCall(NCols).left[y] + NegCall(NCols).width[y] = 0
                /\ PosCall(NCols).left[y] + PosCall(NCols).width[y] = PosSum(y)
                /\ (\A c \in 1..NCols : np_data[y][c] >= 0) => NegCall(1).left[y] = 0

\* A finished call on a table with a row of two negative cells, next to a row
\* of a positive and a negative cell.
C18_Witness ==
    /\ VbarsDone
    /\ NRows = 2 /\ NCols = 2
    /\ np_data[1][1] < 0 /\ np_data[1][2] < 0
    /\ np_data[2][1] > 0 /\ np_data[2][2] < 0
    /\ NegCall(1).left[1] = np_data[1][1] + np_data[1][2]
    /\ NegCall(2).left[1] = np_data[1][2]

\* C20: with no colours supplied the call completes for a table of any shape,
\* and under the heatmap scheme (is_category_names_colors) every segment of a
\* row has the heatmap colour of that row's total, under the palette scheme
\* every segment of a column has that column's palette colour.
C20_ColoursFollowScheme ==
    (vb_pc # "idle" /\ vb_args.colors = NoColors) =>
        /\ vb_pc # "raised"
        /\ \A k \in DOMAIN vb_barh : \A y \in Rows :
              vb_barh[k].color[y] =
                  IF vb_args.is_category_names_colors
                  THEN <<"heat", row_totals[y]>>
                  ELSE <<"mlt", vb_barh[k].col>>

(***************************************************************************)
(* Properties of the reports on the portfolios' own data, checked under    *)
(* SpecPortfolioReports.                                                   *)
(***************************************************************************)
PairwiseDrawn == mp_last \in {"plot_instrument_pnl_diff", "plot_exposures_diff"}

\* The arguments and the difference table of the last pairwise report.
PairArgs == IF mp_last = "plot_instrument_pnl_diff" THEN diff_args ELSE mp_args
PairDiff == IF mp_last = "plot_instrument_pnl_diff" THEN diff ELSE mp_ret

\* The indices in lo..hi, for a collection of n portfolios.
BothWithin(lo, hi) ==
    /\ PairArgs.portfolio_idx1 \in lo..hi
    /\ PairArgs.portfolio_idx2 \in lo..hi

\* C12 as stated: with n portfolios, a pairwise report given an index outside
\* 0..n-1 fails with IndexError and computes no difference.
C12_OutOfRangeFails ==
    (PairwiseDrawn /\ ~ BothWithin(0, Len(portfolio_datas) - 1)) =>
        (mp_raised = "IndexError" /\ PairDiff = NoTable)

\* C12 (amended): with n portfolios, a pairwise report fails with IndexError,
\* computing no difference, exactly when an index is outside -n..n-1; an index
\* in -n..-1 counts from the end of the collection and the difference is
\* computed.
C12_OutOfPythonRangeFails ==
    PairwiseDrawn =>
        LET n == Len(portfolio_datas)
        IN  IF BothWithin(0 - n, n - 1)
            THEN mp_raised = None /\ PairDiff # NoTable
            ELSE mp_raised = "IndexError" /\ PairDiff = NoTable

\* A pairwise report of two portfolios asked for the portfolio at index 2.
C12_Witness ==
    /\ PairwiseDrawn
    /\ Len(portfolio_datas) = 2
    /\ PairArgs.portfolio_idx1 = 0
    /\ PairArgs.portfolio_idx2 = 2
    /\ mp_raised = "IndexError"

\* The concatenated attribution table of the last plot_performance_attribution.
AttributionConcat ==
    ConcatByInstrument([k \in DOMAIN mp_args.portfolio_ids |->
        get_performance_data(PortfolioAt(mp_args.portfolio_ids[k]))])

\* C14: a row of the concatenated attribution table is dropped if and only if
\* all of its values are zero, and a row kept has its values unchanged.
C14_DropsExactlyAllZeroRows ==
    mp_last = "plot_performance_attribution" =>
        LET data == AttributionConcat
        IN  \A r \in Range(data.index) :
               /\ r \notin Range(mp_ret.index) <=>
                     \A c \in Range(data.columns) : data.val[r][c] = 0
               /\ r \in Range(mp_ret.index) => mp_ret.val[r] = data.val[r]

RECURSIVE PartialSums(_, _)
PartialSums(first, ks) ==
    IF ks = <<>> THEN <<first>>
    ELSE <<first>> \o PartialSums(first + ks[1], Tail(ks))

\* C15: the table lists the n strategy NAVs and then each portfolio's asset
\* classes in collection order, and the row boundaries are n, n+k_1, ...,
\* n+k_1+...+k_n, none beyond the number of rows.
C15_RowBoundaries ==
    mp_last = "plot_ac_ra_perf_table" =>
        LET n == Len(portfolio_datas)
            ks == [i \in 1..n |-> Len(portfolio_datas[i].group_order)]
        IN  /\ \A i \in 1..n : mp_ret.rows[i] = <<portfolio_datas[i].nav.name>>
            /\ mp_ret.rows_edge_lines = PartialSums(n, ks)
            /\ \A j \in DOMAIN mp_ret.rows_edge_lines :
                  mp_ret.rows_edge_lines[j] <= Len(mp_ret.rows)

\* C16: the exposure difference covers the union of the timestamps and of the
\* groups of both tables, and each cell is the first portfolio's exposure minus
\* the second's with an absent exposure taken as zero, never a missing value.
C16_AbsentExposureIsZero ==
    (mp_last = "plot_exposures_diff" /\ mp_raised = None) =>
        LET a == get_exposures(PortfolioAt(mp_args.portfolio_idx1), mp_args.time_period)
            b == get_exposures(PortfolioAt(mp_args.portfolio_idx2), mp_args.time_period)
        IN  /\ Range(mp_ret.index) = Range(a.index) \cup Range(b.index)
            /\ Range(mp_ret.columns) = Range(a.columns) \cup Range(b.columns)
            /\ \A t \in Range(mp_ret.index) : \A c \in Range(mp_ret.columns) :
                  /\ mp_ret.val[t][c] # NaN
                  /\ mp_ret.val[t][c] = ZeroFilled(a, t, c) - ZeroFilled(b, t, c)

(***************************************************************************)
(* Properties of the getters and reports, checked under SpecReports.       *)
(***************************************************************************)
Setters == {"__post_init__", "set_navs", "_set_benchmark_prices"}

\* The last call is of an operation that needs the benchmark table: one that
\* always reads it, or one given a benchmark.
RequiresBenchmark ==
    \/ mp_last \in {"get_benchmark_price", "add_regime_shadows", "plot_ra_perf_table",
                    "plot_returns_scatter", "plot_regime_data"} \cup ShadowedPlots
    \/ /\ mp_last \in {"get_navs", "get_ac_navs", "plot_nav", "plot_drawdowns",
                       "plot_rolling_time_under_water"}
       /\ mp_args.benchmark # None

\* C11: with no benchmark table attached, a call of an operation that needs
\* one raises an error (a getter returns no value) and leaves navs and
\* benchmark_prices as they were.
C11_NoBenchmarkFails ==
    [][ (benchmark_prices = <<>> /\ RequiresBenchmark') =>
            /\ mp_raised' \in {"TypeError", "AttributeError"}
            /\ mp_last' \in {"get_navs", "get_benchmark_price", "get_ac_navs"}
                  => mp_ret' = <<>>
            /\ navs' = navs
            /\ benchmark_prices' = benchmark_prices ]_allVars

\* plot_regime_data by asset class fails on an object with no benchmark table.
C11_Witness ==
    /\ benchmark_prices = <<>>
    /\ mp_last = "plot_regime_data"
    /\ mp_args.is_grouped
    /\ mp_raised = "AttributeError"

\* C13: a step that is not __post_init__, set_navs or _set_benchmark_prices
\* (a getter or a report, whether it returns or raises) leaves navs and
\* benchmark_prices as they were.
C13_ReportsReadOnly ==
    [][ mp_last' \notin Setters =>
            (navs' = navs /\ benchmark_prices' = benchmark_prices) ]_allVars

\* get_navs returned the NAVs with a benchmark, within a time period, after a
\* set_navs that changed the frequency.
C13_Witness ==
    /\ mp_last = "get_navs"
    /\ mp_raised = None
    /\ mp_args.benchmark = "TLT"
    /\ mp_args.time_period # <<>>
    /\ mp_freq = "2D"
    /\ mp_ret # navs

\* C17: the prices plot_regime_data hands to the regime chart contain the
\* column of the benchmark the caller chose, in both modes.
C17_ChosenBenchmarkInPrices ==
    (mp_last = "plot_regime_data" /\ mp_raised = None) =>
        mp_args.benchmark \in Range(mp_ret.columns)

(***************************************************************************)
(* Properties of the value labels of plot_bars, checked under SpecLabels.  *)
(***************************************************************************)

\* The call on the one table has returned, with value labels switched on and a
\* threshold configured.
LabelledCall ==
    /\ bar_k = 2
    /\ bar_args.min_max_for_bars_values # NoThreshold
    /\ bar_args.is_add_bar_values \/ bar_args.is_add_top_bar_values

LabelAx == IF bar_args.ax = None THEN FigNames[1] ELSE CallerAxs[1]

\* The labels drawn for the bar p.
LabelsOf(p) ==
    { k \in DOMAIN bar_ax[LabelAx].labels :
        bar_ax[LabelAx].labels[k].x_loc = 10 * p.x + 2 * p.width }

\* Each label of the bar p shows its height, inside the bar when is_add_bar_values
\* is set and near the top of the axis otherwise.
LabelPlaced(p) ==
    \A k \in LabelsOf(p) :
        LET l == bar_ax[LabelAx].labels[k]
        IN  /\ l.height = p.height
            /\ l.place = IF bar_args.is_add_bar_values THEN "bar" ELSE "top"
            /\ l.place = "bar" =>
                  /\ Abs(l.y_loc) < 10 * Abs(p.height)
                  /\ l.y_loc * p.height > 0

\* C21 as stated: with value labels on and a threshold configured, a bar has no
\* label when its absolute height is below the threshold and one label
\* otherwise, inside the bar under is_add_bar_values and at the top of the axis
\* only under is_add_top_bar_values without is_add_bar_values.
C21_LabelUnlessBelowThreshold ==
    LabelledCall =>
        \A i \in DOMAIN bar_ax[LabelAx].patches :
            LET p == bar_ax[LabelAx].patches[i]
            IN  /\ Cardinality(LabelsOf(p)) =
                      IF Abs(p.height) < bar_args.min_max_for_bars_values[1]
                      THEN 0 ELSE 1
                /\ LabelPlaced(p)

\* C21 amended: with value labels on and a non-negative threshold configured, a
\* bar has one label when its absolute height exceeds the threshold and none
\* when it is at or below it, with the same placement.
C21_LabelAboveThreshold ==
    LabelledCall =>
        \A i \in DOMAIN bar_ax[LabelAx].patches :
            LET p == bar_ax[LabelAx].patches[i]
            IN  /\ Cardinality(LabelsOf(p)) =
                      IF Abs(p.height) > bar_args.min_max_for_bars_values[1]
                      THEN 1 ELSE 0
                /\ LabelPlaced(p)

\* A call with a threshold of 1 on a table holding a bar at the threshold and a
\* bar above it, labelled at the top of the axis.
C21_Witness ==
    /\ LabelledCall
    /\ bar_args.min_max_for_bars_values = <<1>>
    /\ ~ bar_args.is_add_bar_values
    /\ \E i, j \in DOMAIN bar_ax[LabelAx].patches :
          /\ bar_ax[LabelAx].patches[i].height = 0 - 1
          /\ bar_ax[LabelAx].patches[j].height = 2
          /\ LabelsOf(bar_ax[LabelAx].patches[i]) = {}
          /\ LabelsOf(bar_ax[LabelAx].patches[j]) # {}

(***************************************************************************)
(* Properties of the rolling views, checked under SpecPortfolioReports.    *)
(***************************************************************************)

RollingDrawn == mp_last \in {"plot_turnover", "plot_costs"}

\* The per-period series of portfolio i that the view drawn last is about.
RollingSource(i) ==
    IF mp_last = "plot_turnover" THEN portfolio_datas[i].turnover
    ELSE portfolio_datas[i].costs

\* The timestamps of the full history of all portfolios.
FullHistory ==
    UNION { Range(RollingSource(i).index) : i \in DOMAIN portfolio_datas }

\* The observation of portfolio i at t (NaN if it has none).
Observation(i, t) ==
    IF t \in Range(RollingSource(i).index) THEN RollingSource(i).val[t] ELSE NaN

\* The last n rows of the full history up to t.
LastRows(t, n) ==
    { u \in FullHistory :
        u <= t /\ Cardinality({ w \in FullHistory : u < w /\ w <= t }) < n }

\* C22: plot_turnover and plot_costs show the rows of the full history that are
\* in the requested window; with a roll_period, a value is shown exactly where
\* the full history has roll_period rows up to there, all observed, and it is
\* the sum of these observations, whether or not they precede the window, so
\* the first roll_period-1 rows of the full history carry no value; with
\* roll_period None the observations themselves are shown.
C22_RollingBeforeWindow ==
    RollingDrawn =>
        /\ Range(mp_ret.index) =
              { t \in FullHistory : mp_args.time_period = <<>>
                                    \/ t >= mp_args.time_period[1].start }
        /\ \A t \in Range(mp_ret.index), i \in DOMAIN portfolio_datas :
              LET shown == mp_ret.val[t][portfolio_datas[i].nav.name]
              IN  IF mp_args.roll_period = <<>>
                  THEN shown = Observation(i, t)
                  ELSE LET n == mp_args.roll_period[1]
                           rows == LastRows(t, n)
                           full == /\ Cardinality(rows) = n
                                   /\ \A u \in rows : Observation(i, u) # NaN
                       IN  /\ Cardinality({ u \in FullHistory : u <= t }) < n
                              => shown = NaN
                           /\ shown # NaN <=> full
                           /\ full => shown = NanSum([u \in rows |-> Observation(i, u)],
                                                     rows)

\* A view with a window of two rows, restricted to a time period, that shows a
\* sum taking in an observation from before the start of the period.
C22_Witness ==
    /\ RollingDrawn
    /\ mp_args.roll_period = <<2>>
    /\ mp_args.time_period # <<>>
    /\ \E t \in Range(mp_ret.index), i \in DOMAIN portfolio_datas :
          /\ mp_ret.val[t][portfolio_datas[i].nav.name] # NaN
          /\ \E u \in LastRows(t, 2) : u < mp_args.time_period[1].start

(***************************************************************************)
(* Properties of the row labels and total markers of plot_vbars, checked   *)
(* under SpecIndex.                                                        *)
(***************************************************************************)

\* The step of a call that runs lines 211-238, asked to put the supplied totals
\* in the row labels.
RewritingStep ==
    /\ vb_pc = "start"
    /\ vb_pc' = "negative"
    /\ vb_args.add_total_to_index
    /\ vb_args.totals # NoTotals

\* C23: no step of plot_vbars changes the values of the caller's table; a call
\* with add_total_to_index and totals appends the row's formatted total to each
\* row label of the caller's table, so a second call appends it again, and no
\* other step changes the labels; the total markers of a finished call are the
\* row sums of the data whatever totals were supplied.
C23_LabelsRewrittenInPlace ==
    [][ /\ np_data' = np_data
        /\ IF RewritingStep
           THEN /\ DOMAIN vb_index' = DOMAIN vb_index
                /\ \A y \in DOMAIN vb_index :
                      /\ vb_index'[y].name = vb_index[y].name
                      /\ vb_index'[y].suffix =
                            Append(vb_index[y].suffix, vb_args.totals[y])
           ELSE vb_index' = vb_index
        /\ (vb_pc' = "done" /\ vb_args.add_total_bar) =>
              /\ Len(vb_vlines') = Len(np_data)
              /\ \A y \in DOMAIN np_data : vb_vlines'[y].x = SumSeq(np_data[y])
      ]_allVars

\* The second call with add_total_to_index and totals has returned: the first
\* label carries the total twice, and the first marker is not at that total.
C23_Witness ==
    /\ vb_pc = "done"
    /\ vb_args.add_total_to_index
    /\ vb_args.totals # NoTotals
    /\ vb_args.add_total_bar
    /\ vb_index[1].suffix = <<vb_args.totals[1], vb_args.totals[1]>>
    /\ vb_vlines[1].x # vb_args.totals[1]

====
